---- MODULE Spec2Model ----
(***************************************************************************)
(* RingRTC signaling message model (core/signaling.rs) together with the   *)
(* callbacks of the two Platform implementations (ios/ios_platform.rs,     *)
(* native.rs), the iOS entry points (ios/call_manager.rs) and the          *)
(* TaskQueueRuntime (core/util.rs).                                        *)
(*                                                                         *)
(* Spec drives the signaling values, callbacks and entry points; SpecTQ    *)
(* runs one TaskQueueRuntime and the thread that drops it; SpecArc hands   *)
(* one shared object out through ptr_as_arc_ptr and ptr_as_arc_mutex;      *)
(* SpecCM runs the CallManager state machine behind the iOS entry points.  *)
(*                                                                         *)
(* Bytes are naturals 0..255, byte strings and Rust Strings are sequences  *)
(* of bytes, Option<T> is a sequence of length 0 (None) or 1 (Some).       *)
(***************************************************************************)
EXTENDS Integers, Sequences, FiniteSets, TLC

\* ------------------------------------------------------------------ bounds
MaxOpaqueLen == 4
MaxWriteLen == 1
MaxKeyLen == 1
MaxStrLen == 1
MaxDeviceId == 2
MaxCandidates == 2
MaxWireValue == 6
MaxTasks == 3
MaxPolls == 2
MaxPeerLen == 2
MaxEntryLen == 3
MaxSliceLen == 17
MaxRefs == 3
MaxBorrows == 2
MaxCalls == 2
MaxReconnects == 1

\* ----------------------------------------------------------------- helpers
None == <<>>
Some(x) == <<x>>
IsSome(o) == Len(o) = 1
IsNone(o) == Len(o) = 0
Unwrap(o) == o[1]
UnwrapOr(o, d) == IF IsSome(o) THEN o[1] ELSE d

SeqsUpTo(S, n) == UNION {[1..k -> S] : k \in 0..n}
OptionOf(S) == {None} \cup {Some(x) : x \in S}

\* Bytes offered to the decoders: the tags of the schema (10 = field 1,
\* 18 = field 2, 34 = field 4, all length-delimited), a varint-typed tag (8),
\* the lengths 0 and 2, and 255 (a varint continuation byte that is never
\* valid UTF-8).
ByteAlphabet == {0, 2, 8, 10, 18, 34, 255}
KeyAlphabet == {7, 255}
StrAlphabet == {118}

Opaques == SeqsUpTo(ByteAlphabet, MaxOpaqueLen)
Writes == SeqsUpTo(ByteAlphabet, MaxWriteLen)
Keys == SeqsUpTo(KeyAlphabet, MaxKeyLen)
Strs == SeqsUpTo(StrAlphabet, MaxStrLen)
DeviceIds == 0..MaxDeviceId
CallMediaTypes == {"Audio", "Video"}

\* ------------------------------------------------- protobuf wire format
\* (prost; message layout of protobuf::signaling)

ProtoErr(v) == [ok |-> FALSE, val |-> v]
ProtoOk(v) == [ok |-> TRUE, val |-> v]

RECURSIVE encode_varint(_)
encode_varint(n) ==
    IF n < 128 THEN <<n>> ELSE <<128 + (n % 128)>> \o encode_varint(n \div 128)

\* Reads a base-128 varint of b starting at index i.  Values of four and
\* more bytes saturate: only their comparison with the buffer length is used.
RECURSIVE decode_varint_from(_, _, _, _)
decode_varint_from(b, i, n, acc) ==
    IF i > Len(b) \/ n >= 10
    THEN [ok |-> FALSE, val |-> 0, next |-> i]
    ELSE LET x == b[i]
             part == IF n <= 2 THEN (x % 128) * (128 ^ n)
                     ELSE IF x % 128 = 0 THEN 0 ELSE 128 ^ 3
             sum == IF acc + part > 128 ^ 3 THEN 128 ^ 3 ELSE acc + part
         IN  IF x < 128
             THEN [ok |-> TRUE, val |-> sum, next |-> i + 1]
             ELSE decode_varint_from(b, i + 1, n + 1, sum)

decode_varint(b, i) == decode_varint_from(b, i, 0, 0)

\* Splits a buffer into its fields <<tag, wire type, payload>>; fails on a
\* malformed key, a zero tag, a wire type above 5, a truncated value.  The
\* group wire types 3 and 4 are rejected (no byte of ByteAlphabet is a key
\* of these types).
RECURSIVE decode_fields(_, _)
decode_fields(b, i) ==
    IF i > Len(b) THEN ProtoOk(<<>>)
    ELSE LET key == decode_varint(b, i)
             wire_type == b[i] % 8
             tag == key.val \div 8
         IN  IF ~key.ok \/ wire_type > 5 \/ tag < 1 THEN ProtoErr(<<>>)
             ELSE IF wire_type = 0
             THEN LET v == decode_varint(b, key.next)
                      rest == decode_fields(b, v.next)
                  IN  IF ~v.ok \/ ~rest.ok THEN ProtoErr(<<>>)
                      ELSE ProtoOk(<<[tag |-> tag, wire_type |-> 0, data |-> <<>>]>>
                                   \o rest.val)
             ELSE IF wire_type \in {1, 5}
             THEN LET width == IF wire_type = 1 THEN 8 ELSE 4
                      rest == decode_fields(b, key.next + width)
                  IN  IF key.next + width - 1 > Len(b) \/ ~rest.ok THEN ProtoErr(<<>>)
                      ELSE ProtoOk(<<[tag |-> tag, wire_type |-> wire_type,
                                      data |-> <<>>]>> \o rest.val)
             ELSE IF wire_type = 2
             THEN LET len == decode_varint(b, key.next)
                  IN  IF ~len.ok \/ len.val > Len(b) - len.next + 1 THEN ProtoErr(<<>>)
                      ELSE LET rest == decode_fields(b, len.next + len.val)
                           IN  IF ~rest.ok THEN ProtoErr(<<>>)
                               ELSE ProtoOk(
                                      <<[tag |-> tag, wire_type |-> 2,
                                         data |-> SubSeq(b, len.next,
                                                         len.next + len.val - 1)]>>
                                      \o rest.val)
             ELSE ProtoErr(<<>>)

\* UTF-8 well-formedness of a string field (lead byte, then continuation
\* bytes 128..191; overlong and surrogate forms are not told apart).
RECURSIVE is_utf8_from(_, _)
is_utf8_from(s, i) ==
    IF i > Len(s) THEN TRUE
    ELSE LET x == s[i]
             cont(k) == /\ i + k <= Len(s)
                        /\ \A j \in 1..k : s[i + j] >= 128 /\ s[i + j] <= 191
         IN  IF x < 128 THEN is_utf8_from(s, i + 1)
             ELSE IF x >= 194 /\ x <= 223 THEN cont(1) /\ is_utf8_from(s, i + 2)
             ELSE IF x >= 224 /\ x <= 239 THEN cont(2) /\ is_utf8_from(s, i + 3)
             ELSE IF x >= 240 /\ x <= 244 THEN cont(3) /\ is_utf8_from(s, i + 4)
             ELSE FALSE

is_utf8(s) == is_utf8_from(s, 1)

encode_field(tag, data) ==
    encode_varint(tag * 8 + 2) \o encode_varint(Len(data)) \o data

encode_optional(tag, o) == IF IsSome(o) THEN encode_field(tag, Unwrap(o)) ELSE <<>>

\* message ConnectionParametersV3OrV2 { sdp = 1 (string); public_key = 2 (bytes) }
DefaultV3OrV2 == [sdp |-> None, public_key |-> None]

encode_v3_or_v2(m) == encode_optional(1, m.sdp) \o encode_optional(2, m.public_key)

RECURSIVE merge_v3_or_v2(_, _, _)
merge_v3_or_v2(m, fs, k) ==
    IF k > Len(fs) THEN ProtoOk(m)
    ELSE LET f == fs[k]
         IN  IF f.tag = 1
             THEN IF f.wire_type /= 2 \/ ~is_utf8(f.data) THEN ProtoErr(m)
                  ELSE merge_v3_or_v2([m EXCEPT !.sdp = Some(f.data)], fs, k + 1)
             ELSE IF f.tag = 2
             THEN IF f.wire_type /= 2 THEN ProtoErr(m)
                  ELSE merge_v3_or_v2([m EXCEPT !.public_key = Some(f.data)], fs, k + 1)
             ELSE merge_v3_or_v2(m, fs, k + 1)

decode_v3_or_v2(m, b) ==
    LET p == decode_fields(b, 1)
    IN  IF ~p.ok THEN ProtoErr(m) ELSE merge_v3_or_v2(m, p.val, 1)

\* message ConnectionParametersV4 { public_key = 1 (bytes); ice_ufrag = 2
\* (string); ice_pwd = 3 (string) }; the codec list (field 4) is left out.
DefaultV4 == [public_key |-> None, ice_ufrag |-> None, ice_pwd |-> None]

encode_v4(m) ==
    encode_optional(1, m.public_key) \o encode_optional(2, m.ice_ufrag)
        \o encode_optional(3, m.ice_pwd)

RECURSIVE merge_v4(_, _, _)
merge_v4(m, fs, k) ==
    IF k > Len(fs) THEN ProtoOk(m)
    ELSE LET f == fs[k]
         IN  IF f.tag = 1
             THEN IF f.wire_type /= 2 THEN ProtoErr(m)
                  ELSE merge_v4([m EXCEPT !.public_key = Some(f.data)], fs, k + 1)
             ELSE IF f.tag = 2
             THEN IF f.wire_type /= 2 \/ ~is_utf8(f.data) THEN ProtoErr(m)
                  ELSE merge_v4([m EXCEPT !.ice_ufrag = Some(f.data)], fs, k + 1)
             ELSE IF f.tag = 3
             THEN IF f.wire_type /= 2 \/ ~is_utf8(f.data) THEN ProtoErr(m)
                  ELSE merge_v4([m EXCEPT !.ice_pwd = Some(f.data)], fs, k + 1)
             ELSE merge_v4(m, fs, k + 1)

decode_v4(m, b) ==
    LET p == decode_fields(b, 1)
    IN  IF ~p.ok THEN ProtoErr(m) ELSE merge_v4(m, p.val, 1)

\* message Offer / message Answer { v3_or_v2 = 2; v4 = 4 }
DefaultProto == [v3_or_v2 |-> None, v4 |-> None]

encode_proto(p) ==
    (IF IsSome(p.v3_or_v2) THEN encode_field(2, encode_v3_or_v2(Unwrap(p.v3_or_v2)))
     ELSE <<>>)
    \o (IF IsSome(p.v4) THEN encode_field(4, encode_v4(Unwrap(p.v4))) ELSE <<>>)

\* A repeated sub-message field merges into the value decoded so far.
RECURSIVE merge_proto(_, _, _)
merge_proto(m, fs, k) ==
    IF k > Len(fs) THEN ProtoOk(m)
    ELSE LET f == fs[k]
         IN  IF f.tag = 2
             THEN LET sub == decode_v3_or_v2(UnwrapOr(m.v3_or_v2, DefaultV3OrV2), f.data)
                  IN  IF f.wire_type /= 2 \/ ~sub.ok THEN ProtoErr(m)
                      ELSE merge_proto([m EXCEPT !.v3_or_v2 = Some(sub.val)], fs, k + 1)
             ELSE IF f.tag = 4
             THEN LET sub == decode_v4(UnwrapOr(m.v4, DefaultV4), f.data)
                  IN  IF f.wire_type /= 2 \/ ~sub.ok THEN ProtoErr(m)
                      ELSE merge_proto([m EXCEPT !.v4 = Some(sub.val)], fs, k + 1)
             ELSE merge_proto(m, fs, k + 1)

decode_proto(b) ==
    LET p == decode_fields(b, 1)
    IN  IF ~p.ok THEN ProtoErr(DefaultProto) ELSE merge_proto(DefaultProto, p.val, 1)

\* message IceCandidateV3OrV2 { sdp = 1 (string) }
\* message IceCandidate { v3_or_v2 = 2 }
encode_ice_candidate(p) ==
    IF IsSome(p.v3_or_v2)
    THEN encode_field(2, encode_optional(1, Unwrap(p.v3_or_v2).sdp))
    ELSE <<>>

RECURSIVE merge_ice_v3_or_v2(_, _, _)
merge_ice_v3_or_v2(m, fs, k) ==
    IF k > Len(fs) THEN ProtoOk(m)
    ELSE IF fs[k].tag = 1
    THEN IF fs[k].wire_type /= 2 \/ ~is_utf8(fs[k].data) THEN ProtoErr(m)
         ELSE merge_ice_v3_or_v2([m EXCEPT !.sdp = Some(fs[k].data)], fs, k + 1)
    ELSE merge_ice_v3_or_v2(m, fs, k + 1)

decode_ice_v3_or_v2(m, b) ==
    LET p == decode_fields(b, 1)
    IN  IF ~p.ok THEN ProtoErr(m) ELSE merge_ice_v3_or_v2(m, p.val, 1)

RECURSIVE merge_ice_candidate(_, _, _)
merge_ice_candidate(m, fs, k) ==
    IF k > Len(fs) THEN ProtoOk(m)
    ELSE IF fs[k].tag = 2
    THEN LET sub == decode_ice_v3_or_v2(UnwrapOr(m.v3_or_v2, [sdp |-> None]),
                                        fs[k].data)
         IN  IF fs[k].wire_type /= 2 \/ ~sub.ok THEN ProtoErr(m)
             ELSE merge_ice_candidate([m EXCEPT !.v3_or_v2 = Some(sub.val)], fs, k + 1)
    ELSE merge_ice_candidate(m, fs, k + 1)

decode_ice_candidate(b) ==
    LET p == decode_fields(b, 1)
    IN  IF ~p.ok THEN ProtoErr([v3_or_v2 |-> None])
        ELSE merge_ice_candidate([v3_or_v2 |-> None], p.val, 1)

V4s == {[public_key |-> k, ice_ufrag |-> u, ice_pwd |-> w] :
            k \in OptionOf(Keys), u \in OptionOf(Strs), w \in OptionOf(Strs)}

\* ------------------------------------------------------ core/signaling.rs
Ok == <<"Ok">>
Err(e) == <<"Err", e>>
OkOf(v) == <<"Ok", v>>
IsOk(r) == r[1] = "Ok"

Versions == {"V2", "V3", "V4"}

\* Faulty variant: V3 still negotiates DTLS.
Version_enable_dtls_V3Too(self) ==
    CASE self = "V2" -> TRUE
      [] self = "V3" -> TRUE
      [] self = "V4" -> FALSE

Version_enable_dtls(self) ==
    CASE self = "V2" -> TRUE
      [] self = "V3" -> FALSE
      [] self = "V4" -> FALSE

\* impl fmt::Display for Version
Version_fmt(self) ==
    CASE self = "V2" -> "V2"
      [] self = "V3" -> "V3"
      [] self = "V4" -> "V4"

\* Offer::new / Offer::deserialize_opaque: the decoded form is cached next to
\* the bytes; a blob that does not decode gives no Offer.
Offer_deserialized(call_media_type, opaque, proto) ==
    IF ~proto.ok THEN Err("DecodeError")
    ELSE OkOf([call_media_type |-> call_media_type, opaque |-> opaque,
               proto |-> proto.val])

Offer_new(call_media_type, opaque) ==
    Offer_deserialized(call_media_type, opaque, decode_proto(opaque))

\* Faulty variant: the public key is looked at before v4.
Offer_latest_version_KeyFirst(self) ==
    IF IsSome(self.proto.v3_or_v2) /\ IsSome(Unwrap(self.proto.v3_or_v2).public_key)
    THEN "V3"
    ELSE IF IsSome(self.proto.v4) THEN "V4"
    ELSE "V2"

Offer_latest_version(self) ==
    IF IsSome(self.proto.v4) THEN "V4"
    ELSE IF IsSome(self.proto.v3_or_v2) /\ IsSome(Unwrap(self.proto.v3_or_v2).public_key)
    THEN "V3"
    ELSE "V2"

\* Faulty variant: an empty legacy sub-message is written next to v4.
Offer_from_v4_WithLegacy(call_media_type, v4) ==
    LET proto == [v3_or_v2 |-> Some(DefaultV3OrV2), v4 |-> Some(v4)]
    IN  Offer_new(call_media_type, encode_proto(proto))

Offer_from_v4(call_media_type, v4) ==
    LET proto == [v3_or_v2 |-> None, v4 |-> Some(v4)]
    IN  Offer_new(call_media_type, encode_proto(proto))

Offer_from_v4_and_v3_and_v2(call_media_type, public_key, v4, v3_or_v2_sdp) ==
    LET offer_proto_v3_or_v2 == [sdp |-> Some(v3_or_v2_sdp), public_key |-> Some(public_key)]
        offer_proto == [v3_or_v2 |-> Some(offer_proto_v3_or_v2), v4 |-> v4]
    IN  Offer_new(call_media_type, encode_proto(offer_proto))

\* to_v4 returns an Option, the SDP accessors a Result.
Offer_to_v4(self) ==
    IF IsSome(self.proto.v4) THEN Some(Unwrap(self.proto.v4)) ELSE None

\* Faulty variant: without a legacy SDP the v4 ice_ufrag is returned instead.
Offer_to_v3_or_v2_sdp_Fallback(self) ==
    IF IsSome(self.proto.v3_or_v2) /\ IsSome(Unwrap(self.proto.v3_or_v2).sdp)
    THEN OkOf(Unwrap(Unwrap(self.proto.v3_or_v2).sdp))
    ELSE IF IsSome(self.proto.v4) /\ IsSome(Unwrap(self.proto.v4).ice_ufrag)
    THEN OkOf(Unwrap(Unwrap(self.proto.v4).ice_ufrag))
    ELSE Err("UnknownSignaledProtocolVersion")

Offer_to_v3_or_v2_sdp(self) ==
    IF IsSome(self.proto.v3_or_v2) /\ IsSome(Unwrap(self.proto.v3_or_v2).sdp)
    THEN OkOf(Unwrap(Unwrap(self.proto.v3_or_v2).sdp))
    ELSE Err("UnknownSignaledProtocolVersion")

\* Faulty variant: the legacy parameters are refused once v4 is present.
Offer_to_v3_or_v2_params_V4Guard(self) ==
    IF IsNone(self.proto.v4) /\ IsSome(self.proto.v3_or_v2)
       /\ IsSome(Unwrap(self.proto.v3_or_v2).sdp)
    THEN OkOf(<<Unwrap(Unwrap(self.proto.v3_or_v2).sdp),
                Unwrap(self.proto.v3_or_v2).public_key>>)
    ELSE Err("UnknownSignaledProtocolVersion")

Offer_to_v3_or_v2_params(self) ==
    IF IsSome(self.proto.v3_or_v2) /\ IsSome(Unwrap(self.proto.v3_or_v2).sdp)
    THEN OkOf(<<Unwrap(Unwrap(self.proto.v3_or_v2).sdp),
                Unwrap(self.proto.v3_or_v2).public_key>>)
    ELSE Err("UnknownSignaledProtocolVersion")

\* A formatted string is the sequence of its literal pieces and formatted
\* arguments.
\* Faulty variant: the legacy SDP is logged as well.
Offer_to_info_string_WithSdp(self) ==
    <<"opaque.len=", Len(self.opaque),
      "\tproto.version=", Version_fmt(Offer_latest_version(self)),
      "\ttype=", self.call_media_type,
      "\tsdp=", Offer_to_v3_or_v2_sdp(self)>>

Offer_to_info_string(self) ==
    <<"opaque.len=", Len(self.opaque),
      "\tproto.version=", Version_fmt(Offer_latest_version(self)),
      "\ttype=", self.call_media_type>>

Answer_deserialized(opaque, proto) ==
    IF ~proto.ok THEN Err("DecodeError")
    ELSE OkOf([opaque |-> opaque, proto |-> proto.val])

Answer_new(opaque) == Answer_deserialized(opaque, decode_proto(opaque))

Answer_latest_version(self) ==
    IF IsSome(self.proto.v4) THEN "V4"
    ELSE IF IsSome(self.proto.v3_or_v2) /\ IsSome(Unwrap(self.proto.v3_or_v2).public_key)
    THEN "V3"
    ELSE "V2"

Answer_from_v4(v4) ==
    LET proto == [v3_or_v2 |-> None, v4 |-> Some(v4)]
    IN  Answer_new(encode_proto(proto))

\* Faulty variant: the public key is not written into the payload.
Answer_from_v3_and_v2_sdp_NoKey(public_key, v3_and_v2_sdp) ==
    LET answer_proto_v3_or_v2 == [sdp |-> Some(v3_and_v2_sdp), public_key |-> None]
        answer_proto == [v3_or_v2 |-> Some(answer_proto_v3_or_v2), v4 |-> None]
    IN  Answer_new(encode_proto(answer_proto))

Answer_from_v3_and_v2_sdp(public_key, v3_and_v2_sdp) ==
    LET answer_proto_v3_or_v2 == [sdp |-> Some(v3_and_v2_sdp), public_key |-> Some(public_key)]
        answer_proto == [v3_or_v2 |-> Some(answer_proto_v3_or_v2), v4 |-> None]
    IN  Answer_new(encode_proto(answer_proto))

Answer_to_v4(self) ==
    IF IsSome(self.proto.v4) THEN Some(Unwrap(self.proto.v4)) ELSE None

Answer_to_v3_or_v2_params(self) ==
    IF IsSome(self.proto.v3_or_v2) /\ IsSome(Unwrap(self.proto.v3_or_v2).sdp)
    THEN OkOf(<<Unwrap(Unwrap(self.proto.v3_or_v2).sdp),
                Unwrap(self.proto.v3_or_v2).public_key>>)
    ELSE Err("UnknownSignaledProtocolVersion")

Answer_to_info_string(self) ==
    <<"opaque.len=", Len(self.opaque),
      "\tproto.version=", Version_fmt(Answer_latest_version(self))>>

\* IceCandidate::new keeps the bytes as they are; Ice is a batch of candidates.
IceCandidate_new(opaque) == [opaque |-> opaque]

\* Faulty variant: the sub-message is written without its sdp.
IceCandidate_from_v3_and_v2_sdp_NoSdp(sdp) ==
    OkOf(IceCandidate_new(encode_ice_candidate([v3_or_v2 |-> Some([sdp |-> None])])))

\* Encoding into a growable buffer does not fail.
IceCandidate_from_v3_and_v2_sdp(sdp) ==
    OkOf(IceCandidate_new(encode_ice_candidate([v3_or_v2 |-> Some([sdp |-> Some(sdp)])])))

\* The match of to_v3_and_v2_sdp on the result of decode(..).
IceCandidate_match_sdp(proto) ==
    IF ~proto.ok THEN Err("DecodeError")
    ELSE IF IsSome(proto.val.v3_or_v2) /\ IsSome(Unwrap(proto.val.v3_or_v2).sdp)
    THEN OkOf(Unwrap(Unwrap(proto.val.v3_or_v2).sdp))
    ELSE Err("UnknownSignaledProtocolVersion")

IceCandidate_to_v3_and_v2_sdp(self) ==
    IceCandidate_match_sdp(decode_ice_candidate(self.opaque))

IceCandidate_to_info_string(self) == <<"opaque.len=", Len(self.opaque)>>

IceCandidates == {IceCandidate_new(o) : o \in SeqsUpTo(ByteAlphabet, 1)}

Ices == {[candidates_added |-> c] : c \in SeqsUpTo(IceCandidates, MaxCandidates)}

\* enum Hangup: <<"Normal">>, <<variant, DeviceId>>, <<"NeedPermission", Option<DeviceId>>>
Hangups ==
    {<<"Normal">>}
    \cup {<<v, d>> : v \in {"AcceptedOnAnotherDevice", "DeclinedOnAnotherDevice",
                            "BusyOnAnotherDevice"}, d \in DeviceIds}
    \cup {<<"NeedPermission", o>> : o \in OptionOf(DeviceIds)}

HangupTypes == {"Normal", "AcceptedOnAnotherDevice", "DeclinedOnAnotherDevice",
                "BusyOnAnotherDevice", "NeedPermission"}

\* #[repr(i32)] enum HangupType and the cast `as i32`
HangupType_as_i32(typ) ==
    CASE typ = "Normal" -> 0
      [] typ = "AcceptedOnAnotherDevice" -> 1
      [] typ = "DeclinedOnAnotherDevice" -> 2
      [] typ = "BusyOnAnotherDevice" -> 3
      [] typ = "NeedPermission" -> 4

\* Faulty variant: the values of DeclinedOnAnotherDevice and
\* BusyOnAnotherDevice are exchanged.
HangupType_from_i32_Swapped(value) ==
    CASE value = 0 -> Some("Normal")
      [] value = 1 -> Some("AcceptedOnAnotherDevice")
      [] value = 2 -> Some("BusyOnAnotherDevice")
      [] value = 3 -> Some("DeclinedOnAnotherDevice")
      [] value = 4 -> Some("NeedPermission")
      [] OTHER -> None

HangupType_from_i32(value) ==
    CASE value = 0 -> Some("Normal")
      [] value = 1 -> Some("AcceptedOnAnotherDevice")
      [] value = 2 -> Some("DeclinedOnAnotherDevice")
      [] value = 3 -> Some("BusyOnAnotherDevice")
      [] value = 4 -> Some("NeedPermission")
      [] OTHER -> None

\* Faulty variant: BusyOnAnotherDevice is reported as DeclinedOnAnotherDevice.
Hangup_to_type_and_device_id_BusyAsDeclined(self) ==
    CASE self[1] = "Normal" -> <<"Normal", None>>
      [] self[1] = "AcceptedOnAnotherDevice" -> <<"AcceptedOnAnotherDevice", Some(self[2])>>
      [] self[1] = "DeclinedOnAnotherDevice" -> <<"DeclinedOnAnotherDevice", Some(self[2])>>
      [] self[1] = "BusyOnAnotherDevice" -> <<"DeclinedOnAnotherDevice", Some(self[2])>>
      [] self[1] = "NeedPermission" -> <<"NeedPermission", self[2]>>

Hangup_to_type_and_device_id(self) ==
    CASE self[1] = "Normal" -> <<"Normal", None>>
      [] self[1] = "AcceptedOnAnotherDevice" -> <<"AcceptedOnAnotherDevice", Some(self[2])>>
      [] self[1] = "DeclinedOnAnotherDevice" -> <<"DeclinedOnAnotherDevice", Some(self[2])>>
      [] self[1] = "BusyOnAnotherDevice" -> <<"BusyOnAnotherDevice", Some(self[2])>>
      [] self[1] = "NeedPermission" -> <<"NeedPermission", self[2]>>

\* Faulty variant: device id 0 is read as an unset NeedPermission device.
Hangup_from_type_and_device_id_ZeroUnset(typ, device_id) ==
    CASE typ = "Normal" -> <<"Normal">>
      [] typ = "AcceptedOnAnotherDevice" -> <<"AcceptedOnAnotherDevice", device_id>>
      [] typ = "DeclinedOnAnotherDevice" -> <<"DeclinedOnAnotherDevice", device_id>>
      [] typ = "BusyOnAnotherDevice" -> <<"BusyOnAnotherDevice", device_id>>
      [] typ = "NeedPermission" ->
            <<"NeedPermission", IF device_id = 0 THEN None ELSE Some(device_id)>>

Hangup_from_type_and_device_id(typ, device_id) ==
    CASE typ = "Normal" -> <<"Normal">>
      [] typ = "AcceptedOnAnotherDevice" -> <<"AcceptedOnAnotherDevice", device_id>>
      [] typ = "DeclinedOnAnotherDevice" -> <<"DeclinedOnAnotherDevice", device_id>>
      [] typ = "BusyOnAnotherDevice" -> <<"BusyOnAnotherDevice", device_id>>
      [] typ = "NeedPermission" -> <<"NeedPermission", Some(device_id)>>

\* Message::typ
Message_typ(self) ==
    CASE self[1] = "Offer" -> "Offer"
      [] self[1] = "Answer" -> "Answer"
      [] self[1] = "Ice" -> "Ice"
      [] self[1] = "Hangup" -> "Hangup"
      [] self[1] = "LegacyHangup" -> "Hangup"
      [] self[1] = "Busy" -> "Busy"

\* ------------------------------------------------- ios/ios_platform.rs
\* Each Platform method returns its Result and the host callbacks it made.
\* SendAnswer, SendIce and SendHangup are records with the fields of the
\* source structs.

\* The steps of a function up to and including the one that fails (all of
\* them when none does), each numbered by its place in program order.
StepsUntil(steps, fail) ==
    LET numbered == [i \in 1..Len(steps) |-> [steps[i] EXCEPT !.step = i]]
    IN  IF \E i \in 1..Len(steps) : steps[i].fn = fail
        THEN SubSeq(numbered, 1, CHOOSE i \in 1..Len(steps) : steps[i].fn = fail)
        ELSE numbered

CoreStep(fn) == [fn |-> fn, to |-> "core", step |-> 0]

\* Faulty variant: what the host returned is not looked at.
IOSPlatform_create_connection_NoNullCheck(remote_device_id, signaling_version, fail, host) ==
    LET callback == [fn |-> "onCreateConnectionInterface", to |-> "app", step |-> 0,
                     remote_device_id |-> remote_device_id,
                     enable_dtls |-> Version_enable_dtls(signaling_version),
                     enable_rtp_data_channel |-> TRUE]
        before == <<CoreStep("Connection::new"), CoreStep("get_connection_ptr"),
                    CoreStep("PeerConnectionObserver::new"), CoreStep("call_context"),
                    callback>>
        after == <<CoreStep("set_peer_connection"), CoreStep("set_app_connection")>>
        stopped == \E i \in 1..Len(before) : before[i].fn = fail
        steps == IF stopped THEN StepsUntil(before, fail)
                 ELSE IF FALSE THEN StepsUntil(before, fail)
                 ELSE StepsUntil(before \o after, fail)
    IN  [ret |-> IF stopped THEN Err(fail)
                 ELSE IF FALSE THEN Err("CreateAppPeerConnection")
                 ELSE IF \E i \in 1..Len(after) : after[i].fn = fail THEN Err(fail)
                 ELSE Ok,
         calls |-> SelectSeq(steps, LAMBDA c : c.to = "app" /\ c.fn /= fail),
         core |-> SelectSeq(steps, LAMBDA c : c.to = "core")]

\* create_connection: the Connection and its observer are made, the host is
\* asked for the application's peer connection, and a null answer is an
\* error.  `fail` names the core call that returns an error ("none": no call
\* does), `host` what the host's callback returns.
IOSPlatform_create_connection(remote_device_id, signaling_version, fail, host) ==
    LET callback == [fn |-> "onCreateConnectionInterface", to |-> "app", step |-> 0,
                     remote_device_id |-> remote_device_id,
                     enable_dtls |-> Version_enable_dtls(signaling_version),
                     enable_rtp_data_channel |-> TRUE]
        before == <<CoreStep("Connection::new"), CoreStep("get_connection_ptr"),
                    CoreStep("PeerConnectionObserver::new"), CoreStep("call_context"),
                    callback>>
        after == <<CoreStep("set_peer_connection"), CoreStep("set_app_connection")>>
        stopped == \E i \in 1..Len(before) : before[i].fn = fail
        steps == IF stopped THEN StepsUntil(before, fail)
                 ELSE IF host /= "ok" THEN StepsUntil(before, fail)
                 ELSE StepsUntil(before \o after, fail)
    IN  [ret |-> IF stopped THEN Err(fail)
                 ELSE IF host /= "ok" THEN Err("CreateAppPeerConnection")
                 ELSE IF \E i \in 1..Len(after) : after[i].fn = fail THEN Err(fail)
                 ELSE Ok,
         calls |-> SelectSeq(steps, LAMBDA c : c.to = "app" /\ c.fn /= fail),
         core |-> SelectSeq(steps, LAMBDA c : c.to = "core")]

\* on_event hands the event to the application as is.
IOSPlatform_on_event(event) ==
    [ret |-> Ok, calls |-> <<[fn |-> "onEvent", event |-> event]>>]

IOSPlatform_on_send_offer(offer) ==
    LET broadcast == TRUE
        receiver_device_id == 0
    IN  [ret |-> Ok,
         calls |-> <<[fn |-> "onSendOffer", receiver_device_id |-> receiver_device_id,
                      broadcast |-> broadcast, opaque |-> offer.opaque,
                      call_media_type |-> offer.call_media_type]>>]

IOSPlatform_on_send_answer(send) ==
    LET broadcast == FALSE
        receiver_device_id == send.receiver_device_id
    IN  [ret |-> Ok,
         calls |-> <<[fn |-> "onSendAnswer", receiver_device_id |-> receiver_device_id,
                      broadcast |-> broadcast, opaque |-> send.answer.opaque]>>]

\* Faulty variant: an ICE batch is always broadcast.
IOSPlatform_on_send_ice_AlwaysBroadcast(send) ==
    LET cands == send.ice.candidates_added
    IN  IF cands = <<>> THEN [ret |-> Ok, calls |-> <<>>]
        ELSE [ret |-> Ok,
              calls |-> <<[fn |-> "onSendIceCandidates", receiver_device_id |-> 0,
                           broadcast |-> TRUE,
                           candidates |-> [i \in 1..Len(cands) |-> cands[i].opaque]]>>]

IOSPlatform_on_send_ice(send) ==
    LET broadcast == IsNone(send.receiver_device_id)
        receiver_device_id == UnwrapOr(send.receiver_device_id, 0)
        cands == send.ice.candidates_added
    IN  IF cands = <<>> THEN [ret |-> Ok, calls |-> <<>>]
        ELSE [ret |-> Ok,
              calls |-> <<[fn |-> "onSendIceCandidates",
                           receiver_device_id |-> receiver_device_id,
                           broadcast |-> broadcast,
                           candidates |-> [i \in 1..Len(cands) |-> cands[i].opaque]]>>]

\* Faulty variant: a hangup naming another device is addressed to that device.
IOSPlatform_on_send_hangup_Targeted(send) ==
    LET td == Hangup_to_type_and_device_id(send.hangup)
        broadcast == IsNone(td[2])
        receiver_device_id == UnwrapOr(td[2], 0)
    IN  [ret |-> Ok,
         calls |-> <<[fn |-> "onSendHangup", receiver_device_id |-> receiver_device_id,
                      broadcast |-> broadcast,
                      hangup_type |-> HangupType_as_i32(td[1]),
                      hangup_device_id |-> UnwrapOr(td[2], 0),
                      use_legacy |-> send.use_legacy]>>]

IOSPlatform_on_send_hangup(send) ==
    LET broadcast == TRUE
        receiver_device_id == 0
        td == Hangup_to_type_and_device_id(send.hangup)
        hangup_device_id == UnwrapOr(td[2], 0)
    IN  [ret |-> Ok,
         calls |-> <<[fn |-> "onSendHangup", receiver_device_id |-> receiver_device_id,
                      broadcast |-> broadcast,
                      hangup_type |-> HangupType_as_i32(td[1]),
                      hangup_device_id |-> hangup_device_id,
                      use_legacy |-> send.use_legacy]>>]

IOSPlatform_on_send_busy ==
    LET broadcast == TRUE
        receiver_device_id == 0
    IN  [ret |-> Ok,
         calls |-> <<[fn |-> "onSendBusy", receiver_device_id |-> receiver_device_id,
                      broadcast |-> broadcast]>>]

\* ------------------------------------------------------------ native.rs
\* NativePlatform hands every message to SignalingSender::send_signaling and
\* returns what the sender returns (host_ret).

NativePlatform_send_signaling(receiver_device_id, message, host_ret) ==
    [ret |-> host_ret,
     calls |-> <<[fn |-> "send_signaling", receiver_device_id |-> receiver_device_id,
                  msg |-> message]>>,
     host |-> <<host_ret>>]

NativePlatform_on_send_offer(offer, host_ret) ==
    NativePlatform_send_signaling(None, <<"Offer", offer>>, host_ret)

NativePlatform_on_send_answer(send, host_ret) ==
    NativePlatform_send_signaling(Some(send.receiver_device_id),
                                  <<"Answer", send.answer>>, host_ret)

NativePlatform_on_send_ice(send, host_ret) ==
    NativePlatform_send_signaling(send.receiver_device_id, <<"Ice", send.ice>>, host_ret)

\* Faulty variant: the legacy form is chosen when use_legacy is false.
NativePlatform_on_send_hangup_Inverted(send, host_ret) ==
    LET message == IF send.use_legacy THEN <<"Hangup", send.hangup>>
                   ELSE <<"LegacyHangup", send.hangup>>
    IN  NativePlatform_send_signaling(None, message, host_ret)

NativePlatform_on_send_hangup(send, host_ret) ==
    LET message == IF send.use_legacy THEN <<"LegacyHangup", send.hangup>>
                   ELSE <<"Hangup", send.hangup>>
    IN  NativePlatform_send_signaling(None, message, host_ret)

NativePlatform_on_send_busy(host_ret) ==
    NativePlatform_send_signaling(None, <<"Busy">>, host_ret)

\* enum EndReason and the CallState values handed to the state handler:
\* <<"Incoming", call_id, media>>, <<"Outgoing", call_id, media>>, <<"Ringing">>,
\* <<"Connected">>, <<"Connecting">>, <<"Ended", reason>>, <<"Concluded">>.
EndReasons ==
    {"LocalHangup", "RemoteHangup", "RemoteHangupNeedPermission", "Declined", "Busy",
     "Glare", "ReceivedOfferExpired", "ReceivedOfferWhileActive",
     "ReceivedOfferWithGlare", "SignalingFailure", "ConnectionFailure",
     "InternalFailure", "Timeout", "AcceptedOnAnotherDevice",
     "DeclinedOnAnotherDevice", "BusyOnAnotherDevice", "CallerIsNotMultiring"}

\* The ApplicationEvent values: the arms of the exhaustive match in on_event.
ApplicationEvents ==
    {"LocalRinging", "RemoteRinging", "LocalAccepted", "RemoteAccepted", "Reconnected",
     "Reconnecting", "EndedLocalHangup", "EndedRemoteHangup",
     "EndedRemoteHangupNeedPermission", "EndedRemoteBusy", "EndedRemoteGlare",
     "EndedTimeout", "EndedInternalFailure", "EndedSignalingFailure",
     "EndedConnectionFailure", "EndedAppDroppedCall", "ReceivedOfferExpired",
     "ReceivedOfferWhileActive", "ReceivedOfferWithGlare", "EndedRemoteHangupAccepted",
     "EndedRemoteHangupDeclined", "EndedRemoteHangupBusy",
     "IgnoreCallsFromNonMultiringCallers", "RemoteVideoEnable", "RemoteVideoDisable"}

NativePlatform_send_state(state, host_ret) ==
    [ret |-> host_ret, calls |-> <<[fn |-> "handle_call_state", state |-> state]>>,
     host |-> <<host_ret>>]

NativePlatform_send_remote_video_state(enabled, host_ret) ==
    [ret |-> host_ret,
     calls |-> <<[fn |-> "handle_remote_video_state", enabled |-> enabled]>>,
     host |-> <<host_ret>>]

NativePlatform_on_start_call(call_id, direction, call_media_type, host_ret) ==
    NativePlatform_send_state(
        IF direction = "OutGoing" THEN <<"Outgoing", call_id, call_media_type>>
        ELSE <<"Incoming", call_id, call_media_type>>, host_ret)

\* Faulty variant: a busy remote is reported as busy on another device.
NativePlatform_on_event_BusyMerged(event, host_ret) ==
    CASE event \in {"LocalRinging", "RemoteRinging"} ->
            NativePlatform_send_state(<<"Ringing">>, host_ret)
      [] event \in {"LocalAccepted", "RemoteAccepted", "Reconnected"} ->
            NativePlatform_send_state(<<"Connected">>, host_ret)
      [] event = "Reconnecting" -> NativePlatform_send_state(<<"Connecting">>, host_ret)
      [] event = "EndedLocalHangup" ->
            NativePlatform_send_state(<<"Ended", "LocalHangup">>, host_ret)
      [] event = "EndedRemoteHangup" ->
            NativePlatform_send_state(<<"Ended", "RemoteHangup">>, host_ret)
      [] event = "EndedRemoteHangupNeedPermission" ->
            NativePlatform_send_state(<<"Ended", "RemoteHangupNeedPermission">>, host_ret)
      [] event = "EndedRemoteBusy" ->
            NativePlatform_send_state(<<"Ended", "BusyOnAnotherDevice">>, host_ret)
      [] event = "EndedRemoteGlare" ->
            NativePlatform_send_state(<<"Ended", "Glare">>, host_ret)
      [] event = "EndedTimeout" ->
            NativePlatform_send_state(<<"Ended", "Timeout">>, host_ret)
      [] event = "EndedInternalFailure" ->
            NativePlatform_send_state(<<"Ended", "InternalFailure">>, host_ret)
      [] event = "EndedSignalingFailure" ->
            NativePlatform_send_state(<<"Ended", "SignalingFailure">>, host_ret)
      [] event = "EndedConnectionFailure" ->
            NativePlatform_send_state(<<"Ended", "ConnectionFailure">>, host_ret)
      [] event = "EndedAppDroppedCall" ->
            NativePlatform_send_state(<<"Ended", "Declined">>, host_ret)
      [] event = "ReceivedOfferExpired" ->
            NativePlatform_send_state(<<"Ended", "ReceivedOfferExpired">>, host_ret)
      [] event = "ReceivedOfferWhileActive" ->
            NativePlatform_send_state(<<"Ended", "ReceivedOfferWhileActive">>, host_ret)
      [] event = "ReceivedOfferWithGlare" ->
            NativePlatform_send_state(<<"Ended", "ReceivedOfferWithGlare">>, host_ret)
      [] event = "EndedRemoteHangupAccepted" ->
            NativePlatform_send_state(<<"Ended", "AcceptedOnAnotherDevice">>, host_ret)
      [] event = "EndedRemoteHangupDeclined" ->
            NativePlatform_send_state(<<"Ended", "DeclinedOnAnotherDevice">>, host_ret)
      [] event = "EndedRemoteHangupBusy" ->
            NativePlatform_send_state(<<"Ended", "BusyOnAnotherDevice">>, host_ret)
      [] event = "IgnoreCallsFromNonMultiringCallers" ->
            NativePlatform_send_state(<<"Ended", "CallerIsNotMultiring">>, host_ret)
      [] event = "RemoteVideoEnable" ->
            NativePlatform_send_remote_video_state(TRUE, host_ret)
      [] event = "RemoteVideoDisable" ->
            NativePlatform_send_remote_video_state(FALSE, host_ret)

\* Faulty variant: a locally accepted call is reported as Connecting.
NativePlatform_on_event_AcceptConnecting(event, host_ret) ==
    CASE event \in {"LocalRinging", "RemoteRinging"} ->
            NativePlatform_send_state(<<"Ringing">>, host_ret)
      [] event \in {"RemoteAccepted", "Reconnected"} ->
            NativePlatform_send_state(<<"Connected">>, host_ret)
      [] event \in {"LocalAccepted", "Reconnecting"} ->
            NativePlatform_send_state(<<"Connecting">>, host_ret)
      [] event = "EndedLocalHangup" ->
            NativePlatform_send_state(<<"Ended", "LocalHangup">>, host_ret)
      [] event = "EndedRemoteHangup" ->
            NativePlatform_send_state(<<"Ended", "RemoteHangup">>, host_ret)
      [] event = "EndedRemoteHangupNeedPermission" ->
            NativePlatform_send_state(<<"Ended", "RemoteHangupNeedPermission">>, host_ret)
      [] event = "EndedRemoteBusy" ->
            NativePlatform_send_state(<<"Ended", "Busy">>, host_ret)
      [] event = "EndedRemoteGlare" ->
            NativePlatform_send_state(<<"Ended", "Glare">>, host_ret)
      [] event = "EndedTimeout" ->
            NativePlatform_send_state(<<"Ended", "Timeout">>, host_ret)
      [] event = "EndedInternalFailure" ->
            NativePlatform_send_state(<<"Ended", "InternalFailure">>, host_ret)
      [] event = "EndedSignalingFailure" ->
            NativePlatform_send_state(<<"Ended", "SignalingFailure">>, host_ret)
      [] event = "EndedConnectionFailure" ->
            NativePlatform_send_state(<<"Ended", "ConnectionFailure">>, host_ret)
      [] event = "EndedAppDroppedCall" ->
            NativePlatform_send_state(<<"Ended", "Declined">>, host_ret)
      [] event = "ReceivedOfferExpired" ->
            NativePlatform_send_state(<<"Ended", "ReceivedOfferExpired">>, host_ret)
      [] event = "ReceivedOfferWhileActive" ->
            NativePlatform_send_state(<<"Ended", "ReceivedOfferWhileActive">>, host_ret)
      [] event = "ReceivedOfferWithGlare" ->
            NativePlatform_send_state(<<"Ended", "ReceivedOfferWithGlare">>, host_ret)
      [] event = "EndedRemoteHangupAccepted" ->
            NativePlatform_send_state(<<"Ended", "AcceptedOnAnotherDevice">>, host_ret)
      [] event = "EndedRemoteHangupDeclined" ->
            NativePlatform_send_state(<<"Ended", "DeclinedOnAnotherDevice">>, host_ret)
      [] event = "EndedRemoteHangupBusy" ->
            NativePlatform_send_state(<<"Ended", "BusyOnAnotherDevice">>, host_ret)
      [] event = "IgnoreCallsFromNonMultiringCallers" ->
            NativePlatform_send_state(<<"Ended", "CallerIsNotMultiring">>, host_ret)
      [] event = "RemoteVideoEnable" ->
            NativePlatform_send_remote_video_state(TRUE, host_ret)
      [] event = "RemoteVideoDisable" ->
            NativePlatform_send_remote_video_state(FALSE, host_ret)

NativePlatform_on_event(event, host_ret) ==
    CASE event \in {"LocalRinging", "RemoteRinging"} ->
            NativePlatform_send_state(<<"Ringing">>, host_ret)
      [] event \in {"LocalAccepted", "RemoteAccepted", "Reconnected"} ->
            NativePlatform_send_state(<<"Connected">>, host_ret)
      [] event = "Reconnecting" -> NativePlatform_send_state(<<"Connecting">>, host_ret)
      [] event = "EndedLocalHangup" ->
            NativePlatform_send_state(<<"Ended", "LocalHangup">>, host_ret)
      [] event = "EndedRemoteHangup" ->
            NativePlatform_send_state(<<"Ended", "RemoteHangup">>, host_ret)
      [] event = "EndedRemoteHangupNeedPermission" ->
            NativePlatform_send_state(<<"Ended", "RemoteHangupNeedPermission">>, host_ret)
      [] event = "EndedRemoteBusy" ->
            NativePlatform_send_state(<<"Ended", "Busy">>, host_ret)
      [] event = "EndedRemoteGlare" ->
            NativePlatform_send_state(<<"Ended", "Glare">>, host_ret)
      [] event = "EndedTimeout" ->
            NativePlatform_send_state(<<"Ended", "Timeout">>, host_ret)
      [] event = "EndedInternalFailure" ->
            NativePlatform_send_state(<<"Ended", "InternalFailure">>, host_ret)
      [] event = "EndedSignalingFailure" ->
            NativePlatform_send_state(<<"Ended", "SignalingFailure">>, host_ret)
      [] event = "EndedConnectionFailure" ->
            NativePlatform_send_state(<<"Ended", "ConnectionFailure">>, host_ret)
      [] event = "EndedAppDroppedCall" ->
            NativePlatform_send_state(<<"Ended", "Declined">>, host_ret)
      [] event = "ReceivedOfferExpired" ->
            NativePlatform_send_state(<<"Ended", "ReceivedOfferExpired">>, host_ret)
      [] event = "ReceivedOfferWhileActive" ->
            NativePlatform_send_state(<<"Ended", "ReceivedOfferWhileActive">>, host_ret)
      [] event = "ReceivedOfferWithGlare" ->
            NativePlatform_send_state(<<"Ended", "ReceivedOfferWithGlare">>, host_ret)
      [] event = "EndedRemoteHangupAccepted" ->
            NativePlatform_send_state(<<"Ended", "AcceptedOnAnotherDevice">>, host_ret)
      [] event = "EndedRemoteHangupDeclined" ->
            NativePlatform_send_state(<<"Ended", "DeclinedOnAnotherDevice">>, host_ret)
      [] event = "EndedRemoteHangupBusy" ->
            NativePlatform_send_state(<<"Ended", "BusyOnAnotherDevice">>, host_ret)
      [] event = "IgnoreCallsFromNonMultiringCallers" ->
            NativePlatform_send_state(<<"Ended", "CallerIsNotMultiring">>, host_ret)
      [] event = "RemoteVideoEnable" ->
            NativePlatform_send_remote_video_state(TRUE, host_ret)
      [] event = "RemoteVideoDisable" ->
            NativePlatform_send_remote_video_state(FALSE, host_ret)

\* create_connection: like the iOS one, with the peer connection made by the
\* PeerConnectionFactory; `host` is what create_peer_connection returns.
NativePlatform_create_connection(remote_device_id, signaling_version, fail, host) ==
    LET create == [fn |-> "create_peer_connection", to |-> "pcf", step |-> 0,
                   enable_dtls |-> Version_enable_dtls(signaling_version),
                   enable_rtp_data_channel |-> TRUE]
        before == <<CoreStep("Connection::new"), CoreStep("call_context"),
                    CoreStep("get_connection_ptr"), CoreStep("PeerConnectionObserver::new"),
                    create>>
        after == <<CoreStep("set_peer_connection")>>
        stopped == \E i \in 1..Len(before) : before[i].fn = fail
        steps == IF stopped THEN StepsUntil(before, fail)
                 ELSE IF host /= Ok THEN StepsUntil(before, fail)
                 ELSE StepsUntil(before \o after, fail)
    IN  [ret |-> IF stopped THEN Err(fail)
                 ELSE IF host /= Ok THEN host
                 ELSE IF \E i \in 1..Len(after) : after[i].fn = fail THEN Err(fail)
                 ELSE Ok,
         calls |-> SelectSeq(steps, LAMBDA c : c.to = "pcf" /\ c.fn /= fail),
         core |-> SelectSeq(steps, LAMBDA c : c.to = "core")]

\* Faulty variant: the conclusion of a call is reported as another Ended.
NativePlatform_on_call_concluded_AsEnded(host_ret) ==
    NativePlatform_send_state(<<"Ended", "LocalHangup">>, host_ret)

NativePlatform_on_call_concluded(host_ret) ==
    NativePlatform_send_state(<<"Concluded">>, host_ret)

\* send_call_message and send_http_request return what the signaling sender
\* and the HTTP client return.
NativePlatform_send_call_message(host_ret) ==
    [ret |-> host_ret, calls |-> <<[fn |-> "send_call_message"]>>, host |-> <<host_ret>>]

NativePlatform_send_http_request(request_id, host_ret) ==
    [ret |-> host_ret,
     calls |-> <<[fn |-> "send_http_request", request_id |-> request_id]>>,
     host |-> <<host_ret>>]

NativePlatform_send_group_update(update, host_ret) ==
    [ret |-> host_ret, calls |-> <<[fn |-> "handle_group_update", update |-> update]>>,
     host |-> <<host_ret>>]

\* The group-call callbacks and the GroupUpdate each of them sends.
GroupCallbacks ==
    {<<"request_membership_proof", "RequestMembershipProof">>,
     <<"request_group_members", "RequestGroupMembers">>,
     <<"handle_connection_state_changed", "ConnectionStateChanged">>,
     <<"handle_join_state_changed", "JoinStateChanged">>,
     <<"handle_remote_devices_changed", "RemoteDeviceStatesChanged">>,
     <<"handle_incoming_video_track", "IncomingVideoTrack">>,
     <<"handle_peek_changed", "PeekChanged">>,
     <<"handle_peek_response", "PeekResponse">>,
     <<"handle_ended", "Ended">>}

Unit == <<"Unit">>

\* Faulty variant: the error of the handler is dropped without a log line.
NativePlatform_group_callback_Unlogged(update, host_ret) ==
    [ret |-> Unit, calls |-> NativePlatform_send_group_update(update, host_ret).calls,
     host |-> <<host_ret>>, logged |-> <<>>]

\* A group-call callback returns nothing: `if result.is_err() { error!(..) }`.
NativePlatform_group_callback(update, host_ret) ==
    [ret |-> Unit, calls |-> NativePlatform_send_group_update(update, host_ret).calls,
     host |-> NativePlatform_send_group_update(update, host_ret).host,
     logged |-> IF IsOk(NativePlatform_send_group_update(update, host_ret).ret) THEN <<>>
                ELSE <<NativePlatform_send_group_update(update, host_ret).ret>>]

\* ------------------------------------------------------- core/util.rs
\* A String is the sequence of its characters.
\* format!("{:02x}", byte)
hex_byte(byte) ==
    LET digits == <<"0", "1", "2", "3", "4", "5", "6", "7",
                    "8", "9", "a", "b", "c", "d", "e", "f">>
    IN  <<digits[(byte \div 16) + 1], digits[(byte % 16) + 1]>>

RECURSIVE bytes_to_hexstring(_)
bytes_to_hexstring(bytes) ==
    IF bytes = <<>> THEN <<>>
    ELSE hex_byte(Head(bytes)) \o bytes_to_hexstring(Tail(bytes))

\* The loop of uuid_to_string from index i (counted from 0) on.
RECURSIVE uuid_to_string_from(_, _)
uuid_to_string_from(bytes, i) ==
    IF i >= Len(bytes) THEN <<>>
    ELSE hex_byte(bytes[i + 1])
         \o (IF i = 3 \/ i = 5 \/ i = 7 \/ i = 9 THEN <<"-">> ELSE <<>>)
         \o uuid_to_string_from(bytes, i + 1)

\* Faulty variant: the hyphens are placed one byte late.
uuid_to_string_Late(bytes) ==
    IF Len(bytes) = 16
    THEN SubSeq(uuid_to_string_from(<<0>> \o bytes, 0), 3, 38)
    ELSE <<>>

uuid_to_string(bytes) ==
    IF Len(bytes) = 16 THEN uuid_to_string_from(bytes, 0) ELSE <<>>

\* ------------------------------------------------- ios/call_manager.rs
\* received_hangup: a null call-manager pointer fails in ptr_as_mut; otherwise
\* the Hangup rebuilt from the wire pair goes to CallManager::received_hangup,
\* whose result (core_ret) is returned.
ptr_as_mut(ptr) == IF ptr = "null" THEN Err("NullPointer") ELSE Ok

received_hangup(call_manager, sender_device_id, hangup_type, hangup_device_id, core_ret) ==
    IF ~IsOk(ptr_as_mut(call_manager)) THEN [ret |-> ptr_as_mut(call_manager), calls |-> <<>>]
    ELSE [ret |-> core_ret,
          calls |-> <<[fn |-> "received_hangup",
                       hangup |-> Hangup_from_type_and_device_id(hangup_type,
                                                                 hangup_device_id),
                       sender_device_id |-> sender_device_id]>>]

\* received_offer / received_answer: the pointer, then opaque,
\* sender_identity_key and receiver_identity_key are checked in this order;
\* the arguments of the core call, Offer::new(..)? among them, are evaluated
\* before the call is made.
\* RingRtcError::OptionValueNotSet(function, field)
OptionValueNotSet(fn, field) == <<"Err", "OptionValueNotSet", fn, field>>

\* The core call of received_answer, its arguments evaluated: a failed
\* Answer::new(..)? returns before the core is entered.
CallManager_received_answer(answer, sender_device_id, sender_identity_key, receiver_identity_key, core_ret) ==
    IF ~IsOk(answer) THEN [ret |-> answer, calls |-> <<>>]
    ELSE [ret |-> core_ret,
          calls |-> <<[fn |-> "received_answer",
                       answer |-> answer[2],
                       sender_device_id |-> sender_device_id,
                       sender_identity_key |-> sender_identity_key,
                       receiver_identity_key |-> receiver_identity_key]>>]

received_answer(call_manager, sender_device_id, opaque, sender_identity_key, receiver_identity_key, core_ret) ==
    IF ~IsOk(ptr_as_mut(call_manager)) THEN [ret |-> ptr_as_mut(call_manager), calls |-> <<>>]
    ELSE IF IsNone(opaque)
    THEN [ret |-> OptionValueNotSet("received_answer()", "opaque"), calls |-> <<>>]
    ELSE IF IsNone(sender_identity_key)
    THEN [ret |-> OptionValueNotSet("received_answer()", "sender_identity_key"),
          calls |-> <<>>]
    ELSE IF IsNone(receiver_identity_key)
    THEN [ret |-> OptionValueNotSet("received_answer()", "receiver_identity_key"),
          calls |-> <<>>]
    ELSE CallManager_received_answer(Answer_new(Unwrap(opaque)), sender_device_id, Unwrap(sender_identity_key), Unwrap(receiver_identity_key), core_ret)

\* The core call of received_offer, its arguments evaluated: a failed
\* Offer::new(..)? returns before the core is entered.
CallManager_received_offer(offer, sender_device_id, sender_identity_key, receiver_identity_key, core_ret) ==
    IF ~IsOk(offer) THEN [ret |-> offer, calls |-> <<>>]
    ELSE [ret |-> core_ret,
          calls |-> <<[fn |-> "received_offer",
                       offer |-> offer[2],
                       sender_device_id |-> sender_device_id,
                       sender_identity_key |-> sender_identity_key,
                       receiver_identity_key |-> receiver_identity_key]>>]

\* Faulty variant: the payload is decoded before the identity keys are looked at.
received_offer_DecodeFirst(call_manager, sender_device_id, opaque, call_media_type, sender_identity_key, receiver_identity_key, core_ret) ==
    IF ~IsOk(ptr_as_mut(call_manager)) THEN [ret |-> ptr_as_mut(call_manager), calls |-> <<>>]
    ELSE IF IsNone(opaque)
    THEN [ret |-> OptionValueNotSet("received_offer()", "opaque"), calls |-> <<>>]
    ELSE IF ~IsOk(Offer_new(call_media_type, Unwrap(opaque)))
    THEN [ret |-> Err("DecodeError"), calls |-> <<>>]
    ELSE IF IsNone(sender_identity_key)
    THEN [ret |-> OptionValueNotSet("received_offer()", "sender_identity_key"),
          calls |-> <<>>]
    ELSE IF IsNone(receiver_identity_key)
    THEN [ret |-> OptionValueNotSet("received_offer()", "receiver_identity_key"),
          calls |-> <<>>]
    ELSE CallManager_received_offer(Offer_new(call_media_type, Unwrap(opaque)), sender_device_id, Unwrap(sender_identity_key), Unwrap(receiver_identity_key), core_ret)

received_offer(call_manager, sender_device_id, opaque, call_media_type, sender_identity_key, receiver_identity_key, core_ret) ==
    IF ~IsOk(ptr_as_mut(call_manager)) THEN [ret |-> ptr_as_mut(call_manager), calls |-> <<>>]
    ELSE IF IsNone(opaque)
    THEN [ret |-> OptionValueNotSet("received_offer()", "opaque"), calls |-> <<>>]
    ELSE IF IsNone(sender_identity_key)
    THEN [ret |-> OptionValueNotSet("received_offer()", "sender_identity_key"),
          calls |-> <<>>]
    ELSE IF IsNone(receiver_identity_key)
    THEN [ret |-> OptionValueNotSet("received_offer()", "receiver_identity_key"),
          calls |-> <<>>]
    ELSE CallManager_received_offer(Offer_new(call_media_type, Unwrap(opaque)), sender_device_id, Unwrap(sender_identity_key), Unwrap(receiver_identity_key), core_ret)

\* close: ptr_as_box turns the pointer into the owning Box; the core close()
\* is called and returns; the Box goes out of scope when the function exits,
\* whatever close() returned.
ptr_as_box(ptr) == IF ptr = "null" THEN Err("NullPointer") ELSE Ok

\* Faulty variant: the pointer is only borrowed, the manager is never destroyed.
close_Borrowed(call_manager, core_ret) ==
    IF ~IsOk(ptr_as_mut(call_manager)) THEN [ret |-> ptr_as_mut(call_manager), calls |-> <<>>]
    ELSE [ret |-> core_ret, calls |-> <<[fn |-> "close"]>>]

close(call_manager, core_ret) ==
    IF ~IsOk(ptr_as_box(call_manager)) THEN [ret |-> ptr_as_box(call_manager), calls |-> <<>>]
    ELSE [ret |-> core_ret, calls |-> <<[fn |-> "close"], [fn |-> "drop"]>>]

\* ---------------------------------------------------------------- state
VARIABLES
    msg,        \* the signaling value in hand: <<"None">>, <<"Offer", o>>,
                \* <<"Answer", a>>, <<"Ice", i>>, <<"Hangup", h>>, <<"Busy">>
    last,       \* <<operation, argument>> of the most recent operation
    ret,        \* what that operation returned
    app_calls,  \* AppInterface callbacks it made (IOSPlatform)
    sent,       \* SignalingSender::send_signaling calls it made (NativePlatform)
    cm_calls,   \* calls it made into the core (CallManager, Connection)
    state_calls,\* CallStateHandler notifications it made (NativePlatform)
    pcf_calls,  \* PeerConnectionFactory calls it made (NativePlatform)
    host_calls, \* send_call_message, HttpClient and GroupUpdateHandler calls it made
    host_rets,  \* what the host handlers called by NativePlatform returned
    logged,     \* the error! lines it wrote
    \* one TaskQueueRuntime and the thread that drops it (core/util.rs)
    tasks,      \* the futures spawned so far, in spawn order
    run_queue,  \* indices of the tasks waiting for the worker thread
    rt,         \* the field `rt`: "Some", "None" (taken by drop), "released"
    drop_pc,    \* position of the caller inside Drop::drop
    dropper,    \* where drop was called from
    drop_thread,\* the temporary thread spawned by drop
    \* one shared object handed out as a raw pointer (core/util.rs)
    strong,     \* its strong reference count
    arc_ptrs,   \* the ArcPtr values alive
    owned,      \* the Arc values made by ptr_as_arc_mutex alive
    consumed,   \* how many of those have been dropped
    arc_last,   \* the most recent pointer operation
    arc_ret,    \* what it returned
    \* one CallManager behind its entry points (ios/call_manager.rs)
    call_state, \* the state of every call
    active_call_id, \* Option: the call that is active
    reported,   \* the CallStates NativePlatform delivered for the active call
    mgr_last,   \* <<entry point, arguments>> of the most recent call
    mgr_ret,    \* what it returned
    mgr_events  \* <<call id, event>>: the Platform callbacks it made

sig_vars == <<msg, last, ret, app_calls, sent, cm_calls, state_calls, pcf_calls,
              host_calls, host_rets, logged>>
tq_vars == <<tasks, run_queue, rt, drop_pc, dropper, drop_thread>>
arc_vars == <<strong, arc_ptrs, owned, consumed, arc_last, arc_ret>>
mgr_vars == <<call_state, active_call_id, reported, mgr_last, mgr_ret, mgr_events>>
vars == <<msg, last, ret, app_calls, sent, cm_calls, state_calls, pcf_calls,
          host_calls, host_rets, logged,
          tasks, run_queue, rt, drop_pc, dropper, drop_thread,
          strong, arc_ptrs, owned, consumed, arc_last, arc_ret,
          call_state, active_call_id, reported, mgr_last, mgr_ret, mgr_events>>

NoMessage == <<"None">>
ManagedCallIds == 1..MaxCalls
Remotes == {"alice", "bob"}
IdleCall == [state |-> "Idle", direction |-> "none", remote |-> "none", connected |-> FALSE]
HostResults == {Ok, Err("HostError")}
Pointers == {"null", "call_manager"}
WireValues == (-1 .. MaxWireValue) \cup {-2147483647, 2147483647}

Init ==
    /\ msg = NoMessage
    /\ last = <<"idle", None>>
    /\ ret = Ok
    /\ app_calls = <<>>
    /\ sent = <<>>
    /\ cm_calls = <<>>
    /\ state_calls = <<>>
    /\ pcf_calls = <<>>
    /\ host_calls = <<>>
    /\ host_rets = <<>>
    /\ logged = <<>>
    /\ tasks = <<>>
    /\ run_queue = <<>>
    /\ rt = "Some"
    /\ drop_pc = "idle"
    /\ dropper = "none"
    /\ drop_thread = "none"
    /\ strong = MaxRefs
    /\ arc_ptrs = 0
    /\ owned = 0
    /\ consumed = 0
    /\ arc_last = <<"idle", "null">>
    /\ arc_ret = Ok
    /\ call_state = [id \in ManagedCallIds |-> IdleCall]
    /\ active_call_id = None
    /\ reported = <<>>
    /\ mgr_last = <<"idle", <<"null", 0, "">>>>
    /\ mgr_ret = Ok
    /\ mgr_events = <<>>

\* No operation reads what an earlier one left behind, so the driver starts
\* constructors and entry points from the rest state and returns to it with
\* Drop.
Idle == last[1] = "idle"

\* A constructor leaves its value in hand, or nothing when it fails.
Construct(op, arg, kind, result) ==
    /\ msg' = IF IsOk(result) THEN <<kind, result[2]>> ELSE NoMessage
    /\ last' = <<op, arg>>
    /\ ret' = IF IsOk(result) THEN Ok ELSE result
    /\ app_calls' = <<>>
    /\ sent' = <<>>
    /\ cm_calls' = <<>>
    /\ state_calls' = <<>>
    /\ pcf_calls' = <<>>
    /\ host_calls' = <<>>
    /\ host_rets' = <<>>
    /\ logged' = <<>>
    /\ UNCHANGED <<tq_vars, arc_vars, mgr_vars>>

CallOfferNew ==
    /\ Idle
    /\ \E mt \in CallMediaTypes, opaque \in Opaques :
            Construct("Offer::new", <<mt, opaque>>, "Offer", Offer_new(mt, opaque))

CallOfferFromV4 ==
    /\ Idle
    /\ \E mt \in CallMediaTypes, v4 \in V4s :
            Construct("Offer::from_v4", <<mt, v4>>, "Offer", Offer_from_v4(mt, v4))

CallOfferFromV4AndV3AndV2 ==
    /\ Idle
    /\ \E mt \in CallMediaTypes, key \in Keys, v4 \in OptionOf(V4s), sdp \in Strs :
            Construct("Offer::from_v4_and_v3_and_v2", <<mt, key, v4, sdp>>, "Offer",
                      Offer_from_v4_and_v3_and_v2(mt, key, v4, sdp))

CallAnswerNew ==
    /\ Idle
    /\ \E opaque \in Opaques :
            Construct("Answer::new", <<opaque>>, "Answer", Answer_new(opaque))

CallAnswerFromV4 ==
    /\ Idle
    /\ \E v4 \in V4s :
            Construct("Answer::from_v4", <<v4>>, "Answer", Answer_from_v4(v4))

CallAnswerFromV3AndV2Sdp ==
    /\ Idle
    /\ \E key \in Keys, sdp \in Strs :
            Construct("Answer::from_v3_and_v2_sdp", <<key, sdp>>, "Answer",
                      Answer_from_v3_and_v2_sdp(key, sdp))

MakeIce ==
    /\ Idle
    /\ \E ice \in Ices : Construct("Ice", <<ice>>, "Ice", OkOf(ice))

CallIceCandidateNew ==
    /\ Idle
    /\ \E opaque \in Opaques :
            Construct("IceCandidate::new", <<opaque>>, "IceCandidate",
                      OkOf(IceCandidate_new(opaque)))

CallIceCandidateFromSdp ==
    /\ Idle
    /\ \E sdp \in Strs :
            Construct("IceCandidate::from_v3_and_v2_sdp", <<sdp>>, "IceCandidate",
                      IceCandidate_from_v3_and_v2_sdp(sdp))

\* An accessor borrows the value in hand; `last` keeps how it was built.
IceCandidateToSdp ==
    /\ msg[1] = "IceCandidate"
    /\ last[1] \in {"IceCandidate::new", "IceCandidate::from_v3_and_v2_sdp"}
    /\ msg' = msg
    /\ last' = <<"IceCandidate::to_v3_and_v2_sdp", last>>
    /\ ret' = IceCandidate_to_v3_and_v2_sdp(msg[2])
    /\ app_calls' = <<>>
    /\ sent' = <<>>
    /\ cm_calls' = <<>>
    /\ state_calls' = <<>>
    /\ pcf_calls' = <<>>
    /\ host_calls' = <<>>
    /\ host_rets' = <<>>
    /\ logged' = <<>>
    /\ UNCHANGED <<tq_vars, arc_vars, mgr_vars>>

MakeHangup ==
    /\ Idle
    /\ \E h \in Hangups : Construct("Hangup", <<h>>, "Hangup", OkOf(h))

MakeBusy ==
    /\ Idle
    /\ msg' = <<"Busy">>
    /\ last' = <<"Busy", None>>
    /\ ret' = Ok
    /\ app_calls' = <<>>
    /\ sent' = <<>>
    /\ cm_calls' = <<>>
    /\ state_calls' = <<>>
    /\ pcf_calls' = <<>>
    /\ host_calls' = <<>>
    /\ host_rets' = <<>>
    /\ logged' = <<>>
    /\ UNCHANGED <<tq_vars, arc_vars, mgr_vars>>

\* `opaque` is a pub field of Offer and of Answer (proto is private): a holder
\* of a mutable value can assign it.
WriteOpaque ==
    /\ msg[1] \in {"Offer", "Answer"}
    /\ \E bytes \in Writes :
        /\ msg' = <<msg[1], [msg[2] EXCEPT !.opaque = bytes]>>
        /\ last' = <<"opaque=", <<bytes>>>>
        /\ ret' = Ok
        /\ app_calls' = <<>>
        /\ sent' = <<>>
        /\ cm_calls' = <<>>
        /\ state_calls' = <<>>
        /\ pcf_calls' = <<>>
        /\ host_calls' = <<>>
        /\ host_rets' = <<>>
        /\ logged' = <<>>
        /\ UNCHANGED <<tq_vars, arc_vars, mgr_vars>>

\* A Platform call takes the value in hand by value.
Deliver(op, arg, r, ios) ==
    /\ msg' = NoMessage
    /\ last' = <<op, arg>>
    /\ ret' = r.ret
    /\ app_calls' = IF ios THEN r.calls ELSE <<>>
    /\ sent' = IF ios THEN <<>> ELSE r.calls
    /\ cm_calls' = <<>>
    /\ state_calls' = <<>>
    /\ pcf_calls' = <<>>
    /\ host_calls' = <<>>
    /\ host_rets' = IF ios THEN <<>> ELSE r.host
    /\ logged' = <<>>
    /\ UNCHANGED <<tq_vars, arc_vars, mgr_vars>>

SendAnswers == {[answer |-> msg[2], receiver_device_id |-> d] : d \in DeviceIds}
SendIces == {[ice |-> msg[2], receiver_device_id |-> d] : d \in OptionOf(DeviceIds)}
SendHangups == {[hangup |-> msg[2], use_legacy |-> l] : l \in BOOLEAN}

IOSOnSendOffer ==
    /\ msg[1] = "Offer"
    /\ Deliver("IOSPlatform::on_send_offer", msg[2], IOSPlatform_on_send_offer(msg[2]), TRUE)

IOSOnSendAnswer ==
    /\ msg[1] = "Answer"
    /\ \E send \in SendAnswers :
        Deliver("IOSPlatform::on_send_answer", send, IOSPlatform_on_send_answer(send), TRUE)

IOSOnSendIce ==
    /\ msg[1] = "Ice"
    /\ \E send \in SendIces :
        Deliver("IOSPlatform::on_send_ice", send, IOSPlatform_on_send_ice(send), TRUE)

IOSOnSendHangup ==
    /\ msg[1] = "Hangup"
    /\ \E send \in SendHangups :
        Deliver("IOSPlatform::on_send_hangup", send, IOSPlatform_on_send_hangup(send), TRUE)

IOSOnSendBusy ==
    /\ msg[1] = "Busy"
    /\ Deliver("IOSPlatform::on_send_busy", None, IOSPlatform_on_send_busy, TRUE)

NativeOnSendOffer ==
    /\ msg[1] = "Offer"
    /\ \E h \in HostResults :
        Deliver("NativePlatform::on_send_offer", msg[2],
                NativePlatform_on_send_offer(msg[2], h), FALSE)

NativeOnSendAnswer ==
    /\ msg[1] = "Answer"
    /\ \E send \in SendAnswers, h \in HostResults :
        Deliver("NativePlatform::on_send_answer", send,
                NativePlatform_on_send_answer(send, h), FALSE)

NativeOnSendIce ==
    /\ msg[1] = "Ice"
    /\ \E send \in SendIces, h \in HostResults :
        Deliver("NativePlatform::on_send_ice", send,
                NativePlatform_on_send_ice(send, h), FALSE)

NativeOnSendHangup ==
    /\ msg[1] = "Hangup"
    /\ \E send \in SendHangups, h \in HostResults :
        Deliver("NativePlatform::on_send_hangup", send,
                NativePlatform_on_send_hangup(send, h), FALSE)

NativeOnSendBusy ==
    /\ msg[1] = "Busy"
    /\ \E h \in HostResults :
        Deliver("NativePlatform::on_send_busy", None, NativePlatform_on_send_busy(h), FALSE)

\* The host hands a hangup received from the wire to the iOS entry point.
ReceivedHangup ==
    /\ Idle
    /\ \E cm \in Pointers, sender \in DeviceIds, typ \in HangupTypes, dev \in DeviceIds,
          core_ret \in HostResults :
        LET r == received_hangup(cm, sender, typ, dev, core_ret)
        IN  /\ msg' = msg
            /\ last' = <<"received_hangup", <<cm, sender, typ, dev>>>>
            /\ ret' = r.ret
            /\ app_calls' = <<>>
            /\ sent' = <<>>
            /\ cm_calls' = r.calls
            /\ state_calls' = <<>>
            /\ pcf_calls' = <<>>
            /\ host_calls' = <<>>
            /\ host_rets' = <<>>
            /\ logged' = <<>>
            /\ UNCHANGED <<tq_vars, arc_vars, mgr_vars>>

\* The raw hangup type of a wire message is converted with HangupType::from_i32.
FromI32 ==
    /\ Idle
    /\ \E value \in WireValues :
        /\ msg' = msg
        /\ last' = <<"HangupType::from_i32", value>>
        /\ ret' = HangupType_from_i32(value)
        /\ app_calls' = <<>>
        /\ sent' = <<>>
        /\ cm_calls' = <<>>
        /\ state_calls' = <<>>
        /\ pcf_calls' = <<>>
        /\ host_calls' = <<>>
        /\ host_rets' = <<>>
        /\ logged' = <<>>
        /\ UNCHANGED <<tq_vars, arc_vars, mgr_vars>>

\* A NativePlatform callback that notifies the state handler.
Notify(op, arg, r) ==
    /\ msg' = msg
    /\ last' = <<op, arg>>
    /\ ret' = r.ret
    /\ app_calls' = <<>>
    /\ sent' = <<>>
    /\ cm_calls' = <<>>
    /\ state_calls' = r.calls
    /\ pcf_calls' = <<>>
    /\ host_calls' = <<>>
    /\ host_rets' = r.host
    /\ logged' = <<>>
    /\ UNCHANGED <<tq_vars, arc_vars, mgr_vars>>

CallIds == {1}
CallDirections == {"OutGoing", "InComing"}

NativeOnStartCall ==
    /\ Idle
    /\ \E call_id \in CallIds, d \in CallDirections, mt \in CallMediaTypes, h \in HostResults :
        Notify("NativePlatform::on_start_call", <<call_id, d, mt>>,
               NativePlatform_on_start_call(call_id, d, mt, h))

NativeOnEvent ==
    /\ Idle
    /\ \E event \in ApplicationEvents, h \in HostResults :
        Notify("NativePlatform::on_event", event, NativePlatform_on_event(event, h))

NativeOnCallConcluded ==
    /\ Idle
    /\ \E h \in HostResults :
        Notify("NativePlatform::on_call_concluded", None, NativePlatform_on_call_concluded(h))

NativeSendCallMessage ==
    /\ Idle
    /\ \E h \in HostResults :
        /\ msg' = msg
        /\ last' = <<"NativePlatform::send_call_message", None>>
        /\ ret' = NativePlatform_send_call_message(h).ret
        /\ app_calls' = <<>>
        /\ sent' = <<>>
        /\ cm_calls' = <<>>
        /\ state_calls' = <<>>
        /\ pcf_calls' = <<>>
        /\ host_calls' = NativePlatform_send_call_message(h).calls
        /\ host_rets' = NativePlatform_send_call_message(h).host
        /\ logged' = <<>>
        /\ UNCHANGED <<tq_vars, arc_vars, mgr_vars>>

\* A NativePlatform callback that goes to the HTTP client or the group handler.
Forward(op, arg, r, log) ==
    /\ msg' = msg
    /\ last' = <<op, arg>>
    /\ ret' = r.ret
    /\ app_calls' = <<>>
    /\ sent' = <<>>
    /\ cm_calls' = <<>>
    /\ state_calls' = <<>>
    /\ pcf_calls' = <<>>
    /\ host_calls' = r.calls
    /\ host_rets' = r.host
    /\ logged' = log
    /\ UNCHANGED <<tq_vars, arc_vars, mgr_vars>>

RequestIds == {7}

NativeSendHttpRequest ==
    /\ Idle
    /\ \E id \in RequestIds, h \in HostResults :
        Forward("NativePlatform::send_http_request", <<id>>,
                NativePlatform_send_http_request(id, h), <<>>)

NativeGroupCallback ==
    /\ Idle
    /\ \E cb \in GroupCallbacks, h \in HostResults :
        Forward("NativePlatform::group_callback", cb,
                NativePlatform_group_callback(cb[2], h),
                NativePlatform_group_callback(cb[2], h).logged)

\* The byte slices handed to the formatting functions: every length up to
\* MaxSliceLen, filled from a first byte in steps of a stride, and the UUID
\* of the documentation test.
ByteSlices ==
    {[i \in 1..n |-> (first + (i - 1) * stride) % 256] :
        n \in 0..MaxSliceLen, first \in {0, 17, 179, 255}, stride \in {0, 1, 17}}
    \cup {<<17, 34, 51, 68, 85, 102, 119, 136, 153, 0, 170, 187, 204, 221, 238, 255>>}

\* A formatting function of core/util.rs returns its String.
Format(op, bytes, string) ==
    /\ msg' = msg
    /\ last' = <<op, <<bytes>>>>
    /\ ret' = <<"String", string>>
    /\ app_calls' = <<>>
    /\ sent' = <<>>
    /\ cm_calls' = <<>>
    /\ state_calls' = <<>>
    /\ pcf_calls' = <<>>
    /\ host_calls' = <<>>
    /\ host_rets' = <<>>
    /\ logged' = <<>>
    /\ UNCHANGED <<tq_vars, arc_vars, mgr_vars>>

BytesToHexstring ==
    /\ Idle
    /\ \E bytes \in ByteSlices :
        Format("bytes_to_hexstring", bytes, bytes_to_hexstring(bytes))

UuidToString ==
    /\ Idle
    /\ \E bytes \in ByteSlices : Format("uuid_to_string", bytes, uuid_to_string(bytes))

\* An iOS entry point called by the host: it may call into the core.
Enter(op, arg, r) ==
    /\ msg' = msg
    /\ last' = <<op, arg>>
    /\ ret' = r.ret
    /\ app_calls' = <<>>
    /\ sent' = <<>>
    /\ cm_calls' = r.calls
    /\ state_calls' = <<>>
    /\ pcf_calls' = <<>>
    /\ host_calls' = <<>>
    /\ host_rets' = <<>>
    /\ logged' = <<>>
    /\ UNCHANGED <<tq_vars, arc_vars, mgr_vars>>

IdentityKeys == {<<5>>}
\* The payloads the host hands to received_offer / received_answer.
EntryOpaques == SeqsUpTo(ByteAlphabet, MaxEntryLen)

ReceivedOffer ==
    /\ Idle
    /\ \E cm \in Pointers, opaque \in OptionOf(EntryOpaques), mt \in CallMediaTypes,
          skey \in OptionOf(IdentityKeys), rkey \in OptionOf(IdentityKeys),
          core_ret \in HostResults :
        \E r \in {received_offer(cm, 1, opaque, mt, skey, rkey, core_ret)} :
            Enter("received_offer", <<cm, opaque, mt, skey, rkey, core_ret>>, r)

ReceivedAnswer ==
    /\ Idle
    /\ \E cm \in Pointers, opaque \in OptionOf(EntryOpaques),
          skey \in OptionOf(IdentityKeys), rkey \in OptionOf(IdentityKeys),
          core_ret \in HostResults :
        \E r \in {received_answer(cm, 1, opaque, skey, rkey, core_ret)} :
            Enter("received_answer", <<cm, opaque, skey, rkey, core_ret>>, r)

Close ==
    /\ Idle
    /\ \E cm \in Pointers, core_ret \in HostResults :
        Enter("close", <<cm, core_ret>>, close(cm, core_ret))

IOSOnEvent ==
    /\ Idle
    /\ \E event \in ApplicationEvents :
        /\ msg' = msg
        /\ last' = <<"IOSPlatform::on_event", event>>
        /\ ret' = IOSPlatform_on_event(event).ret
        /\ app_calls' = IOSPlatform_on_event(event).calls
        /\ sent' = <<>>
        /\ cm_calls' = <<>>
        /\ state_calls' = <<>>
        /\ pcf_calls' = <<>>
        /\ host_calls' = <<>>
        /\ host_rets' = <<>>
        /\ logged' = <<>>
        /\ UNCHANGED <<tq_vars, arc_vars, mgr_vars>>

\* The core calls that can fail inside create_connection.
ConnectionSteps == {"none", "Connection::new", "get_connection_ptr",
                    "PeerConnectionObserver::new", "call_context",
                    "set_peer_connection", "set_app_connection"}
AppConnectionInterfaces == {"ok", "null_object", "null_pc"}

IOSCreateConnection ==
    /\ Idle
    /\ \E dev \in DeviceIds, v \in Versions, fail \in ConnectionSteps,
          host \in AppConnectionInterfaces :
        LET r == IOSPlatform_create_connection(dev, v, fail, host)
        IN  /\ msg' = msg
            /\ last' = <<"IOSPlatform::create_connection", <<dev, v, fail, host>>>>
            /\ ret' = r.ret
            /\ app_calls' = r.calls
            /\ sent' = <<>>
            /\ cm_calls' = r.core
            /\ state_calls' = <<>>
            /\ pcf_calls' = <<>>
            /\ host_calls' = <<>>
            /\ host_rets' = <<>>
            /\ logged' = <<>>
            /\ UNCHANGED <<tq_vars, arc_vars, mgr_vars>>

NativeCreateConnection ==
    /\ Idle
    /\ \E dev \in DeviceIds, v \in Versions,
          fail \in ConnectionSteps \ {"set_app_connection"}, host \in HostResults :
        LET r == NativePlatform_create_connection(dev, v, fail, host)
        IN  /\ msg' = msg
            /\ last' = <<"NativePlatform::create_connection", <<dev, v, fail, host>>>>
            /\ ret' = r.ret
            /\ app_calls' = <<>>
            /\ sent' = <<>>
            /\ cm_calls' = r.core
            /\ state_calls' = <<>>
            /\ pcf_calls' = r.calls
            /\ host_calls' = <<>>
            /\ host_rets' = <<>>
            /\ logged' = <<>>
            /\ UNCHANGED <<tq_vars, arc_vars, mgr_vars>>

\* The value in hand and the record of the last operation go out of scope.
Drop ==
    /\ ~Idle
    /\ msg' = NoMessage
    /\ last' = <<"idle", None>>
    /\ ret' = Ok
    /\ app_calls' = <<>>
    /\ sent' = <<>>
    /\ cm_calls' = <<>>
    /\ state_calls' = <<>>
    /\ pcf_calls' = <<>>
    /\ host_calls' = <<>>
    /\ host_rets' = <<>>
    /\ logged' = <<>>
    /\ UNCHANGED <<tq_vars, arc_vars, mgr_vars>>

Next ==
    \/ CallOfferNew
    \/ CallOfferFromV4
    \/ CallOfferFromV4AndV3AndV2
    \/ CallAnswerNew
    \/ CallAnswerFromV4
    \/ CallAnswerFromV3AndV2Sdp
    \/ MakeIce
    \/ CallIceCandidateNew
    \/ CallIceCandidateFromSdp
    \/ IceCandidateToSdp
    \/ MakeHangup
    \/ MakeBusy
    \/ WriteOpaque
    \/ IOSOnSendOffer
    \/ IOSOnSendAnswer
    \/ IOSOnSendIce
    \/ IOSOnSendHangup
    \/ IOSOnSendBusy
    \/ NativeOnSendOffer
    \/ NativeOnSendAnswer
    \/ NativeOnSendIce
    \/ NativeOnSendHangup
    \/ NativeOnSendBusy
    \/ ReceivedHangup
    \/ FromI32
    \/ NativeOnStartCall
    \/ NativeOnEvent
    \/ NativeOnCallConcluded
    \/ NativeSendCallMessage
    \/ NativeSendHttpRequest
    \/ NativeGroupCallback
    \/ BytesToHexstring
    \/ UuidToString
    \/ ReceivedOffer
    \/ ReceivedAnswer
    \/ Close
    \/ IOSOnEvent
    \/ IOSCreateConnection
    \/ NativeCreateConnection
    \/ Drop

Spec == Init /\ [][Next]_vars

\* ------------------------------------------- core/util.rs: TaskQueueRuntime
\* A tokio runtime built with worker_threads(1).  A spawned task is a future:
\* the worker thread polls it, a poll either completes it or leaves it
\* pending until it is woken and queued again.  `polls` is the number of
\* polls the future still needs.

Running == {i \in 1..Len(tasks) : tasks[i].st = "running"}
AllDone == \A i \in 1..Len(tasks) : tasks[i].st = "done"

\* A task that called drop is blocked inside it until drop returns.
BlockedInDrop == dropper = "own_task" /\ drop_pc \in {"taken", "joining"}

\* TaskQueueRuntime::spawn: self.rt.as_ref().unwrap().spawn(future)
Spawn ==
    /\ rt = "Some"
    /\ Len(tasks) < MaxTasks
    /\ \E n \in 1..MaxPolls :
        tasks' = Append(tasks, [st |-> "queued", polls |-> n, started |-> FALSE])
    /\ run_queue' = Append(run_queue, Len(tasks) + 1)
    /\ UNCHANGED <<rt, drop_pc, dropper, drop_thread>>
    /\ UNCHANGED <<sig_vars, arc_vars, mgr_vars>>

\* The single worker thread takes the next queued task and starts polling it.
WorkerPoll ==
    /\ Running = {}
    /\ run_queue /= <<>>
    /\ rt /= "released"
    /\ tasks' = [tasks EXCEPT ![Head(run_queue)].st = "running",
                              ![Head(run_queue)].started = TRUE]
    /\ run_queue' = Tail(run_queue)
    /\ UNCHANGED <<rt, drop_pc, dropper, drop_thread>>
    /\ UNCHANGED <<sig_vars, arc_vars, mgr_vars>>

\* The poll returns Poll::Ready: the task has completed.
PollReady ==
    /\ ~BlockedInDrop
    /\ \E i \in Running :
        /\ tasks[i].polls = 1
        /\ tasks' = [tasks EXCEPT ![i].st = "done"]
    /\ UNCHANGED <<run_queue, rt, drop_pc, dropper, drop_thread>>
    /\ UNCHANGED <<sig_vars, arc_vars, mgr_vars>>

\* The poll returns Poll::Pending: the task waits at an .await.
PollPending ==
    /\ ~BlockedInDrop
    /\ \E i \in Running :
        /\ tasks[i].polls > 1
        /\ tasks' = [tasks EXCEPT ![i].st = "pending", ![i].polls = @ - 1]
    /\ UNCHANGED <<run_queue, rt, drop_pc, dropper, drop_thread>>
    /\ UNCHANGED <<sig_vars, arc_vars, mgr_vars>>

\* What a pending task waits for happens: it is queued again.
Wake ==
    /\ rt /= "released"
    /\ \E i \in 1..Len(tasks) :
        /\ tasks[i].st = "pending"
        /\ tasks' = [tasks EXCEPT ![i].st = "queued"]
        /\ run_queue' = Append(run_queue, i)
    /\ UNCHANGED <<rt, drop_pc, dropper, drop_thread>>
    /\ UNCHANGED <<sig_vars, arc_vars, mgr_vars>>

\* Drop::drop, `let rt = self.rt.take()`: called from a thread outside any
\* runtime, from a task of another runtime, or from a task of this queue.
DropBegin ==
    /\ drop_pc = "idle"
    /\ rt = "Some"
    /\ \E from \in {"external", "other_runtime", "own_task"} :
        /\ from = "own_task" => Running /= {}
        /\ dropper' = from
    /\ rt' = "None"
    /\ drop_pc' = "taken"
    /\ UNCHANGED <<tasks, run_queue, drop_thread>>
    /\ UNCHANGED <<sig_vars, arc_vars, mgr_vars>>

\* `let drop_thread = thread::spawn(move || { core::mem::drop(rt); })`
DropSpawnThread ==
    /\ drop_pc = "taken"
    /\ drop_thread' = "running"
    /\ drop_pc' = "joining"
    /\ UNCHANGED <<tasks, run_queue, rt, dropper>>
    /\ UNCHANGED <<sig_vars, arc_vars, mgr_vars>>

\* The temporary thread drops the runtime: "Dropping a runtime blocks until
\* all spawned futures complete."
DropThreadRun ==
    /\ drop_thread = "running"
    /\ AllDone
    /\ rt' = "released"
    /\ drop_thread' = "finished"
    /\ UNCHANGED <<tasks, run_queue, drop_pc, dropper>>
    /\ UNCHANGED <<sig_vars, arc_vars, mgr_vars>>

\* Faulty variant: drop does not wait for the temporary thread.
DropJoin_Detached ==
    /\ drop_pc = "joining"
    /\ drop_pc' = "returned"
    /\ UNCHANGED <<tasks, run_queue, rt, dropper, drop_thread>>
    /\ UNCHANGED <<sig_vars, arc_vars, mgr_vars>>

\* `let _ = drop_thread.join()`
DropJoin ==
    /\ drop_pc = "joining"
    /\ drop_thread = "finished"
    /\ drop_pc' = "returned"
    /\ UNCHANGED <<tasks, run_queue, rt, dropper, drop_thread>>
    /\ UNCHANGED <<sig_vars, arc_vars, mgr_vars>>

NextTQ ==
    \/ Spawn
    \/ WorkerPoll
    \/ PollReady
    \/ PollPending
    \/ Wake
    \/ DropBegin
    \/ DropSpawnThread
    \/ DropThreadRun
    \/ DropJoin

\* The worker thread and the two threads of drop keep running, and what a
\* pending task waits for happens.
SpecTQ ==
    /\ Init
    /\ [][NextTQ]_vars
    /\ WF_vars(WorkerPoll)
    /\ WF_vars(PollReady)
    /\ WF_vars(PollPending)
    /\ WF_vars(Wake)
    /\ WF_vars(DropSpawnThread)
    /\ WF_vars(DropThreadRun)
    /\ WF_vars(DropJoin)

\* ---------------------------------------- core/util.rs: ArcPtr, raw pointers
\* The object starts with MaxRefs references, each held outside as a raw
\* pointer made by Arc::into_raw.  Arc::from_raw and Arc::into_raw leave the
\* count as it is; dropping an Arc takes one reference away.

\* ptr_as_arc_ptr: ArcPtr::new wraps Arc::from_raw(ptr).
PtrAsArcPtr ==
    /\ \E ptr \in Pointers :
        /\ arc_last' = <<"ptr_as_arc_ptr", ptr>>
        /\ IF ptr = "null"
           THEN /\ arc_ret' = Err("NullPointer")
                /\ UNCHANGED <<strong, arc_ptrs>>
           ELSE /\ strong > 0
                /\ arc_ptrs < MaxBorrows
                /\ arc_ret' = Ok
                /\ arc_ptrs' = arc_ptrs + 1
                /\ strong' = strong
    /\ UNCHANGED <<owned, consumed>>
    /\ UNCHANGED <<sig_vars, tq_vars, mgr_vars>>

\* Faulty variant: the Arc inside the ArcPtr is dropped with it.
ArcPtrDrop_Release ==
    /\ arc_ptrs > 0
    /\ strong > 0
    /\ arc_last' = <<"ArcPtr::drop", "object">>
    /\ arc_ret' = Ok
    /\ arc_ptrs' = arc_ptrs - 1
    /\ strong' = strong - 1
    /\ UNCHANGED <<owned, consumed>>
    /\ UNCHANGED <<sig_vars, tq_vars, mgr_vars>>

\* Drop for ArcPtr: the Arc is swapped out and given back with Arc::into_raw.
ArcPtrDrop ==
    /\ arc_ptrs > 0
    /\ arc_last' = <<"ArcPtr::drop", "object">>
    /\ arc_ret' = Ok
    /\ arc_ptrs' = arc_ptrs - 1
    /\ strong' = strong
    /\ UNCHANGED <<owned, consumed>>
    /\ UNCHANGED <<sig_vars, tq_vars, mgr_vars>>

\* ptr_as_arc_mutex: Arc::from_raw(ptr) is returned; the caller gives away a
\* reference it holds.
PtrAsArcMutex ==
    /\ \E ptr \in Pointers :
        /\ arc_last' = <<"ptr_as_arc_mutex", ptr>>
        /\ IF ptr = "null"
           THEN /\ arc_ret' = Err("NullPointer")
                /\ owned' = owned
           ELSE /\ owned < strong
                /\ arc_ret' = Ok
                /\ owned' = owned + 1
    /\ UNCHANGED <<strong, arc_ptrs, consumed>>
    /\ UNCHANGED <<sig_vars, tq_vars, mgr_vars>>

\* The Arc returned by ptr_as_arc_mutex goes out of scope.
ArcDrop ==
    /\ owned > 0
    /\ arc_last' = <<"Arc::drop", "object">>
    /\ arc_ret' = Ok
    /\ owned' = owned - 1
    /\ strong' = strong - 1
    /\ consumed' = consumed + 1
    /\ arc_ptrs' = arc_ptrs
    /\ UNCHANGED <<sig_vars, tq_vars, mgr_vars>>

NextArc ==
    \/ PtrAsArcPtr
    \/ ArcPtrDrop
    \/ PtrAsArcMutex
    \/ ArcDrop

SpecArc == Init /\ [][NextArc]_vars

\* ------------------------------------------- the CallManager state machine
\* The entry points of ios/call_manager.rs hand every call to the core
\* CallManager and return its result.  The core is modelled from its
\* description: one active call at a time, walking
\* Idle -> Outgoing|Incoming -> Ringing -> Connecting -> Connected ->
\* Ended -> Concluded -> Idle, every entry point that names a call failing
\* fast when the call is not the active one.  A Platform callback is
\* <<call id, callback, argument>>.

Outcome(r, cs, active, events) == [ret |-> r, cs |-> cs, active |-> active, events |-> events]

Ended(cs, id, event) == Outcome(Ok, [cs EXCEPT ![id].state = "Ended"], Some(id), <<<<id, "on_event", event>>>>)

\* call: fails if a call is active; otherwise the call becomes Outgoing and
\* on_start_call fires.
Core_call(cs, active, id, remote) ==
    IF IsSome(active) \/ cs[id].state /= "Idle"
    THEN Outcome(Err("CallAlreadyInProgress"), cs, active, <<>>)
    ELSE Outcome(Ok,
                 [cs EXCEPT ![id] = [state |-> "Outgoing", direction |-> "OutGoing",
                                     remote |-> remote, connected |-> FALSE]],
                 Some(id), <<<<id, "on_start_call", "OutGoing">>>>)

\* Faulty variant: an offer that arrives while a call is active is kept as a
\* second incoming call.
Core_received_offer_Queued(cs, active, id, remote, expired) ==
    IF expired
    THEN Outcome(Ok, cs, active, <<<<id, "on_event", "ReceivedOfferExpired">>,
                                   <<id, "on_call_concluded", "">>>>)
    ELSE IF cs[id].state /= "Idle"
    THEN Outcome(Ok, cs, active, <<<<id, "on_event", "ReceivedOfferWhileActive">>,
                                   <<id, "on_call_concluded", "">>>>)
    ELSE Outcome(Ok,
                 [cs EXCEPT ![id] = [state |-> "Incoming", direction |-> "InComing",
                                     remote |-> remote, connected |-> FALSE]],
                 IF IsSome(active) THEN active ELSE Some(id),
                 <<<<id, "on_start_call", "InComing">>>>)

\* received_offer: an expired offer concludes with ReceivedOfferExpired; an
\* offer that meets an active call concludes with ReceivedOfferWhileActive,
\* unless the active call is an outgoing one to the same remote that is not
\* yet connecting (glare): then the higher call id wins and the other call
\* concludes; otherwise the call becomes Incoming and waits for accept_call.
Core_received_offer(cs, active, id, remote, expired) ==
    IF expired
    THEN Outcome(Ok, cs, active, <<<<id, "on_event", "ReceivedOfferExpired">>,
                                   <<id, "on_call_concluded", "">>>>)
    ELSE IF IsSome(active)
    THEN IF /\ Unwrap(active) /= id
            /\ cs[Unwrap(active)].direction = "OutGoing"
            /\ cs[Unwrap(active)].state \in {"Outgoing", "Ringing"}
            /\ cs[Unwrap(active)].remote = remote
         THEN IF id > Unwrap(active)
              THEN Outcome(Ok,
                           [cs EXCEPT ![Unwrap(active)] = IdleCall,
                                      ![id] = [state |-> "Incoming", direction |-> "InComing",
                                               remote |-> remote, connected |-> FALSE]],
                           Some(id),
                           <<<<Unwrap(active), "on_event", "EndedRemoteGlare">>,
                             <<Unwrap(active), "on_call_concluded", "">>,
                             <<id, "on_start_call", "InComing">>>>)
              ELSE Outcome(Ok, cs, active, <<<<id, "on_event", "ReceivedOfferWithGlare">>,
                                             <<id, "on_call_concluded", "">>>>)
         ELSE Outcome(Ok, cs, active, <<<<id, "on_event", "ReceivedOfferWhileActive">>,
                                        <<id, "on_call_concluded", "">>>>)
    ELSE Outcome(Ok,
                 [cs EXCEPT ![id] = [state |-> "Incoming", direction |-> "InComing",
                                     remote |-> remote, connected |-> FALSE]],
                 Some(id), <<<<id, "on_start_call", "InComing">>>>)

\* What an entry point does to the active call once its call id matched.
Core_apply(cs, id, op) ==
    CASE op = "proceed" ->
            IF cs[id].state \in {"Outgoing", "Incoming"}
            THEN Outcome(Ok, [cs EXCEPT ![id].state = "Ringing"], Some(id),
                         <<<<id, "on_event", IF cs[id].direction = "OutGoing"
                                             THEN "RemoteRinging" ELSE "LocalRinging">>>>)
            ELSE Outcome(Err("InvalidState"), cs, Some(id), <<>>)
      [] op = "accept_call" ->
            IF cs[id].direction = "InComing" /\ cs[id].state \in {"Incoming", "Ringing"}
            THEN Outcome(Ok, [cs EXCEPT ![id].state = "Connecting"], Some(id), <<>>)
            ELSE Outcome(Err("InvalidState"), cs, Some(id), <<>>)
      [] op = "received_answer" ->
            IF cs[id].direction = "OutGoing" /\ cs[id].state = "Ringing"
            THEN Outcome(Ok, [cs EXCEPT ![id].state = "Connecting"], Some(id), <<>>)
            ELSE Outcome(Err("InvalidState"), cs, Some(id), <<>>)
      [] op \in {"received_ice", "message_sent"} -> Outcome(Ok, cs, Some(id), <<>>)
      [] cs[id].state \in {"Ended", "Concluded"} -> Outcome(Ok, cs, Some(id), <<>>)
      [] op = "received_hangup" -> Ended(cs, id, "EndedRemoteHangup")
      [] op = "received_busy" -> Ended(cs, id, "EndedRemoteBusy")
      [] op = "message_send_failure" -> Ended(cs, id, "EndedSignalingFailure")
      [] op = "drop_call" -> Ended(cs, id, "EndedAppDroppedCall")

\* Faulty variant: the call id is not compared with the active call.
Core_entry_Unchecked(cs, active, id, op) ==
    IF ~IsSome(active)
    THEN Outcome(Err("CallIdNotFound"), cs, active, <<>>)
    ELSE Core_apply(cs, Unwrap(active), op)

\* proceed, accept_call, received_answer, received_ice, received_hangup,
\* received_busy, message_sent, message_send_failure, drop_call: fail fast
\* unless call_id is the active call.
Core_entry(cs, active, id, op) ==
    IF active /= Some(id)
    THEN Outcome(Err("CallIdNotFound"), cs, active, <<>>)
    ELSE Core_apply(cs, id, op)

\* hangup: the active call, if there is one that has not ended, ends with
\* LocalHangup.
Core_hangup(cs, active) ==
    IF ~IsSome(active) \/ cs[UnwrapOr(active, 1)].state \in {"Ended", "Concluded"}
    THEN Outcome(Ok, cs, active, <<>>)
    ELSE Ended(cs, Unwrap(active), "EndedLocalHangup")

\* The CallState NativePlatform hands to the host for one Platform callback.
HostState(e) ==
    CASE e[2] = "on_start_call" ->
            NativePlatform_on_start_call(e[1], e[3], "Audio", Ok).calls[1].state
      [] e[2] = "on_event" -> NativePlatform_on_event(e[3], Ok).calls[1].state
      [] e[2] = "on_call_concluded" -> NativePlatform_on_call_concluded(Ok).calls[1].state

RECURSIVE Delivered(_, _, _)
Delivered(seq, events, id) ==
    IF events = <<>> THEN seq
    ELSE Delivered(IF Head(events)[1] /= id THEN seq
                   ELSE IF Head(events)[2] = "on_start_call" THEN <<HostState(Head(events))>>
                   ELSE Append(seq, HostState(Head(events))),
                   Tail(events), id)

\* One entry point of ios/call_manager.rs: ptr_as_mut(call_manager)? and then
\* the core's result.  `reported` follows the callbacks of the call that is
\* active (a rejected offer is a call of its own, which never becomes active).
Manage(op, call_manager, id, arg, r) ==
    /\ mgr_last' = <<op, <<call_manager, id, arg>>>>
    /\ IF ptr_as_mut(call_manager) /= Ok
       THEN /\ mgr_ret' = ptr_as_mut(call_manager)
            /\ mgr_events' = <<>>
            /\ UNCHANGED <<call_state, active_call_id, reported>>
       ELSE /\ mgr_ret' = r.ret
            /\ mgr_events' = r.events
            /\ call_state' = r.cs
            /\ active_call_id' = r.active
            /\ reported' = IF IsSome(r.active)
                           THEN Delivered(reported, r.events,
                                          IF op = "received_offer" /\ r.cs[id] = call_state[id]
                                          THEN 0 ELSE Unwrap(r.active))
                           ELSE <<>>
    /\ UNCHANGED <<sig_vars, tq_vars, arc_vars>>

CMCall ==
    \E cm \in Pointers, id \in ManagedCallIds, remote \in Remotes :
        Manage("call", cm, id, remote, Core_call(call_state, active_call_id, id, remote))

CMReceivedOffer ==
    \E cm \in Pointers, id \in ManagedCallIds, remote \in Remotes, expired \in BOOLEAN :
        Manage("received_offer", cm, id, IF expired THEN "expired" ELSE remote,
               Core_received_offer(call_state, active_call_id, id, remote, expired))

EntryPoints ==
    {"proceed", "accept_call", "received_answer", "received_ice", "received_hangup",
     "received_busy", "message_sent", "message_send_failure", "drop_call"}

CMEntry ==
    \E cm \in Pointers, id \in ManagedCallIds, op \in EntryPoints :
        Manage(op, cm, id, "", Core_entry(call_state, active_call_id, id, op))

CMHangup ==
    \E cm \in Pointers :
        Manage("hangup", cm, 0, "", Core_hangup(call_state, active_call_id))

\* The connection of the active call comes up (the call is accepted, or is
\* back after an interruption) or is interrupted.
CMConnection ==
    /\ IsSome(active_call_id)
    /\ \E id \in {Unwrap(active_call_id)} :
        \/ /\ call_state[id].state = "Connecting"
           /\ Manage("connected", "call_manager", id, "",
                     Outcome(Ok,
                             [call_state EXCEPT ![id].state = "Connected",
                                                ![id].connected = TRUE],
                             Some(id),
                             <<<<id, "on_event",
                                 IF call_state[id].connected THEN "Reconnected"
                                 ELSE IF call_state[id].direction = "InComing"
                                 THEN "LocalAccepted" ELSE "RemoteAccepted">>>>))
        \/ /\ call_state[id].state = "Connected"
           /\ Cardinality({i \in 1..Len(reported) : reported[i][1] = "Connecting"}) < MaxReconnects
           /\ Manage("interrupted", "call_manager", id, "",
                     Outcome(Ok, [call_state EXCEPT ![id].state = "Connecting"], Some(id),
                             <<<<id, "on_event", "Reconnecting">>>>))

\* An ended call is concluded (on_call_concluded) and then released.
CMConclude ==
    /\ IsSome(active_call_id)
    /\ \E id \in {Unwrap(active_call_id)} :
        \/ /\ call_state[id].state = "Ended"
           /\ Manage("conclude", "call_manager", id, "",
                     Outcome(Ok, [call_state EXCEPT ![id].state = "Concluded"], Some(id),
                             <<<<id, "on_call_concluded", "">>>>))
        \/ /\ call_state[id].state = "Concluded"
           /\ Manage("release", "call_manager", id, "",
                     Outcome(Ok, [call_state EXCEPT ![id] = IdleCall], None, <<>>))

NextCM ==
    \/ CMCall
    \/ CMReceivedOffer
    \/ CMEntry
    \/ CMHangup
    \/ CMConnection
    \/ CMConclude

SpecCM == Init /\ [][NextCM]_vars

\* ------------------------------------------------------------- claims
InHand(kind) == msg[1] = kind
Constructed(kind) == InHand(kind) /\ last[1] /= "opaque="
LastOp(op) == last[1] = op

\* The version the populated fields of a decoded payload stand for.
ImpliedVersion(proto) ==
    IF proto.v4 /= None THEN "V4"
    ELSE IF proto.v3_or_v2 /= None /\ proto.v3_or_v2[1].public_key /= None THEN "V3"
    ELSE "V2"

\* C1: latest_version() of every Offer and Answer is the version its decoded
\* payload implies (V4 if v4 is present, else V3 if v3_or_v2.public_key is
\* present, else V2); an Offer built by from_v4 is V4 and one built by
\* from_v4_and_v3_and_v2 is V4 when v4 was given and V3 otherwise; and
\* Offer::new / Answer::new over the bytes of a value a constructor returned
\* gives the same version, whatever the media type.
C1_LatestVersion ==
    /\ InHand("Offer") => Offer_latest_version(msg[2]) = ImpliedVersion(msg[2].proto)
    /\ InHand("Answer") => Answer_latest_version(msg[2]) = ImpliedVersion(msg[2].proto)
    /\ LastOp("Offer::from_v4") =>
            InHand("Offer") /\ Offer_latest_version(msg[2]) = "V4"
    /\ LastOp("Offer::from_v4_and_v3_and_v2") =>
            /\ InHand("Offer")
            /\ Offer_latest_version(msg[2]) = IF last[2][3] /= None THEN "V4" ELSE "V3"
    /\ LastOp("Answer::from_v4") =>
            InHand("Answer") /\ Answer_latest_version(msg[2]) = "V4"
    /\ Constructed("Offer") =>
            \A mt \in CallMediaTypes :
                LET again == Offer_new(mt, msg[2].opaque)
                IN  /\ IsOk(again)
                    /\ Offer_latest_version(again[2]) = Offer_latest_version(msg[2])
    /\ Constructed("Answer") =>
            LET again == Answer_new(msg[2].opaque)
            IN  /\ IsOk(again)
                /\ Answer_latest_version(again[2]) = Answer_latest_version(msg[2])

C1_Witness ==
    /\ LastOp("Offer::from_v4_and_v3_and_v2")
    /\ InHand("Offer")
    /\ msg[2].proto.v4 /= None
    /\ msg[2].proto.v3_or_v2 /= None
    /\ Offer_latest_version(Offer_new("Video", msg[2].opaque)[2]) = "V4"

\* C2: the Answer built by Answer::from_v3_and_v2_sdp(key, sdp) gives
\* to_v3_or_v2_params() = Ok((sdp, Some(key))), latest_version() = V3 and
\* to_v4() = None.
C2_AnswerRoundTrip ==
    LastOp("Answer::from_v3_and_v2_sdp") =>
        /\ ret = Ok
        /\ InHand("Answer")
        /\ Answer_to_v3_or_v2_params(msg[2]) = OkOf(<<last[2][2], Some(last[2][1])>>)
        /\ Answer_latest_version(msg[2]) = "V3"
        /\ Answer_to_v4(msg[2]) = None

C2_Witness ==
    /\ LastOp("Answer::from_v3_and_v2_sdp")
    /\ last[2] = <<(<<255>>), (<<118>>)>>
    /\ InHand("Answer")
    /\ Answer_to_v3_or_v2_params(msg[2]) = OkOf(<<(<<118>>), Some(<<255>>)>>)

\* C3: HangupType has the wire values Normal=0, AcceptedOnAnotherDevice=1,
\* DeclinedOnAnotherDevice=2, BusyOnAnotherDevice=3, NeedPermission=4;
\* from_i32 inverts the cast for the type of every Hangup (in hand, or as
\* IOSPlatform::on_send_hangup puts it on the wire) and gives None for every
\* value outside 0..4.
C3_HangupTypeWire ==
    /\ InHand("Hangup") =>
            LET typ == Hangup_to_type_and_device_id(msg[2])[1]
            IN  /\ typ = msg[2][1]
                /\ HangupType_from_i32(HangupType_as_i32(typ)) = Some(msg[2][1])
                /\ HangupType_as_i32(typ) =
                        CASE msg[2][1] = "Normal" -> 0
                          [] msg[2][1] = "AcceptedOnAnotherDevice" -> 1
                          [] msg[2][1] = "DeclinedOnAnotherDevice" -> 2
                          [] msg[2][1] = "BusyOnAnotherDevice" -> 3
                          [] msg[2][1] = "NeedPermission" -> 4
    /\ LastOp("IOSPlatform::on_send_hangup") =>
            HangupType_from_i32(app_calls[1].hangup_type) = Some(last[2].hangup[1])
    /\ LastOp("HangupType::from_i32") =>
            IF last[2] \in 0..4
            THEN ret /= None /\ HangupType_as_i32(ret[1]) = last[2]
            ELSE ret = None

C3_Witness ==
    /\ LastOp("IOSPlatform::on_send_hangup")
    /\ last[2].hangup = <<"BusyOnAnotherDevice", 1>>
    /\ app_calls[1].hangup_type = 3
    /\ HangupType_from_i32(app_calls[1].hangup_type) = Some("BusyOnAnotherDevice")

\* C4: IOSPlatform::on_send_hangup transmits NeedPermission(None) with device
\* id 0, rebuilding it from that wire pair gives NeedPermission(Some(0)), and
\* no hangup the iOS entry point rebuilds is NeedPermission(None).
C4_NeedPermissionLossy ==
    /\ (LastOp("IOSPlatform::on_send_hangup") /\ last[2].hangup = <<"NeedPermission", None>>) =>
            /\ Len(app_calls) = 1
            /\ app_calls[1].hangup_type = 4
            /\ app_calls[1].hangup_device_id = 0
            /\ Hangup_from_type_and_device_id(
                    HangupType_from_i32(app_calls[1].hangup_type)[1],
                    app_calls[1].hangup_device_id) = <<"NeedPermission", Some(0)>>
    /\ LastOp("received_hangup") =>
            \A i \in 1..Len(cm_calls) : cm_calls[i].hangup /= <<"NeedPermission", None>>

C4_Witness ==
    /\ LastOp("IOSPlatform::on_send_hangup")
    /\ last[2].hangup = <<"NeedPermission", None>>
    /\ app_calls[1].hangup_device_id = 0
    /\ app_calls[1].hangup_type = 4

\* C5: on_send_ice with an empty candidates_added batch is a no-op on
\* IOSPlatform and on NativePlatform: no host callback is made and Ok is
\* returned.
C5_EmptyIceIsNoOp ==
    (LastOp("IOSPlatform::on_send_ice") \/ LastOp("NativePlatform::on_send_ice")) =>
        (last[2].ice.candidates_added = <<>> =>
            app_calls = <<>> /\ sent = <<>> /\ ret = Ok)

\* C6: hangup, busy and offer messages are never addressed to one device:
\* IOSPlatform passes broadcast = true with receiver_device_id = 0,
\* NativePlatform passes receiver_device_id = None, and each of these methods
\* makes exactly that one callback.
C6_BroadcastOnly ==
    /\ \A i \in 1..Len(app_calls) :
            app_calls[i].fn \in {"onSendHangup", "onSendBusy", "onSendOffer"} =>
                app_calls[i].broadcast = TRUE /\ app_calls[i].receiver_device_id = 0
    /\ \A i \in 1..Len(sent) :
            sent[i].msg[1] \in {"Hangup", "LegacyHangup", "Busy", "Offer"} =>
                sent[i].receiver_device_id = None
    /\ LastOp("IOSPlatform::on_send_hangup") =>
            Len(app_calls) = 1 /\ app_calls[1].fn = "onSendHangup"
    /\ LastOp("IOSPlatform::on_send_busy") =>
            Len(app_calls) = 1 /\ app_calls[1].fn = "onSendBusy"
    /\ LastOp("IOSPlatform::on_send_offer") =>
            Len(app_calls) = 1 /\ app_calls[1].fn = "onSendOffer"
    /\ LastOp("NativePlatform::on_send_hangup") =>
            Len(sent) = 1 /\ sent[1].msg[1] \in {"Hangup", "LegacyHangup"}
    /\ LastOp("NativePlatform::on_send_busy") =>
            Len(sent) = 1 /\ sent[1].msg[1] = "Busy"
    /\ LastOp("NativePlatform::on_send_offer") =>
            Len(sent) = 1 /\ sent[1].msg[1] = "Offer"

C6_Witness ==
    /\ LastOp("IOSPlatform::on_send_hangup")
    /\ last[2] = [hangup |-> <<"AcceptedOnAnotherDevice", 2>>, use_legacy |-> TRUE]
    /\ app_calls[1].broadcast = TRUE
    /\ app_calls[1].hangup_device_id = 2

\* C7: every answer is delivered unicast to send.receiver_device_id, and a
\* delivered ICE batch is unicast to d when receiver_device_id = Some(d) and
\* broadcast (device id 0 / None) when it is None.
C7_AnswerAndIceAddressing ==
    /\ LastOp("IOSPlatform::on_send_answer") =>
            /\ Len(app_calls) = 1
            /\ app_calls[1].fn = "onSendAnswer"
            /\ app_calls[1].broadcast = FALSE
            /\ app_calls[1].receiver_device_id = last[2].receiver_device_id
    /\ LastOp("NativePlatform::on_send_answer") =>
            /\ Len(sent) = 1
            /\ sent[1].msg[1] = "Answer"
            /\ sent[1].receiver_device_id = Some(last[2].receiver_device_id)
    /\ LastOp("IOSPlatform::on_send_ice") =>
            /\ last[2].ice.candidates_added /= <<>> => Len(app_calls) = 1
            /\ \A i \in 1..Len(app_calls) :
                /\ app_calls[i].fn = "onSendIceCandidates"
                /\ app_calls[i].broadcast = (last[2].receiver_device_id = None)
                /\ app_calls[i].receiver_device_id =
                        IF last[2].receiver_device_id = None THEN 0
                        ELSE last[2].receiver_device_id[1]
    /\ LastOp("NativePlatform::on_send_ice") =>
            \A i \in 1..Len(sent) :
                /\ sent[i].msg[1] = "Ice"
                /\ sent[i].receiver_device_id = last[2].receiver_device_id

C7_Witness ==
    /\ LastOp("IOSPlatform::on_send_ice")
    /\ last[2].receiver_device_id = Some(1)
    /\ Len(app_calls) = 1
    /\ app_calls[1].broadcast = FALSE
    /\ app_calls[1].receiver_device_id = 1

UnknownVersion == Err("UnknownSignaledProtocolVersion")

\* C8 (as claimed): to_v4, to_v3_or_v2_sdp and to_v3_or_v2_params of Offer
\* and Answer fail with the "unknown protocol version" error whenever the
\* representation they ask for is absent from the cached payload.
C8_AccessorsFailWithError ==
    /\ InHand("Offer") =>
            /\ msg[2].proto.v4 = None => Offer_to_v4(msg[2]) = UnknownVersion
            /\ (msg[2].proto.v3_or_v2 = None \/ msg[2].proto.v3_or_v2[1].sdp = None) =>
                    /\ Offer_to_v3_or_v2_sdp(msg[2]) = UnknownVersion
                    /\ Offer_to_v3_or_v2_params(msg[2]) = UnknownVersion
    /\ InHand("Answer") =>
            /\ msg[2].proto.v4 = None => Answer_to_v4(msg[2]) = UnknownVersion
            /\ (msg[2].proto.v3_or_v2 = None \/ msg[2].proto.v3_or_v2[1].sdp = None) =>
                    Answer_to_v3_or_v2_params(msg[2]) = UnknownVersion

\* C8 (amended): to_v4 returns None, not an error, when the payload has no v4
\* and Some of the payload's own v4 otherwise; to_v3_or_v2_sdp and
\* to_v3_or_v2_params fail with the "unknown protocol version" error when
\* v3_or_v2.sdp is absent and otherwise return the payload's own sdp (and
\* public_key); no accessor returns a value of another representation.
C8_AccessorsAbsent ==
    /\ InHand("Offer") =>
            LET p == msg[2].proto
            IN  /\ Offer_to_v4(msg[2]) = p.v4
                /\ IF p.v3_or_v2 = None \/ p.v3_or_v2[1].sdp = None
                   THEN /\ Offer_to_v3_or_v2_sdp(msg[2]) = UnknownVersion
                        /\ Offer_to_v3_or_v2_params(msg[2]) = UnknownVersion
                   ELSE /\ Offer_to_v3_or_v2_sdp(msg[2]) = OkOf(p.v3_or_v2[1].sdp[1])
                        /\ Offer_to_v3_or_v2_params(msg[2]) =
                                OkOf(<<p.v3_or_v2[1].sdp[1], p.v3_or_v2[1].public_key>>)
    /\ InHand("Answer") =>
            LET p == msg[2].proto
            IN  /\ Answer_to_v4(msg[2]) = p.v4
                /\ IF p.v3_or_v2 = None \/ p.v3_or_v2[1].sdp = None
                   THEN Answer_to_v3_or_v2_params(msg[2]) = UnknownVersion
                   ELSE Answer_to_v3_or_v2_params(msg[2]) =
                                OkOf(<<p.v3_or_v2[1].sdp[1], p.v3_or_v2[1].public_key>>)

C8_Witness ==
    /\ LastOp("Offer::new")
    /\ InHand("Offer")
    /\ msg[2].proto.v4 = None
    /\ msg[2].proto.v3_or_v2 /= None
    /\ msg[2].proto.v3_or_v2[1].sdp = None
    /\ msg[2].proto.v3_or_v2[1].public_key /= None
    /\ Offer_to_v4(msg[2]) = None
    /\ Offer_to_v3_or_v2_sdp(msg[2]) = UnknownVersion

\* C9: the cached decoded form of every Offer and Answer equals the decoding
\* of its opaque bytes, after any sequence of operations open to a holder of
\* the value.
C9_CacheConsistent ==
    (InHand("Offer") \/ InHand("Answer")) =>
        decode_proto(msg[2].opaque) = ProtoOk(msg[2].proto)

\* C10: for every Hangup h other than NeedPermission(None), rebuilding from
\* the wire pair (type, device id or 0) gives h back; Normal carries no device
\* id and is transmitted with 0; from_type_and_device_id(Normal, x) is Normal
\* for every x; and what the iOS entry point rebuilds converts back to the
\* pair it was given.
C10_HangupBidirectional ==
    /\ InHand("Hangup") =>
            LET td == Hangup_to_type_and_device_id(msg[2])
            IN  /\ msg[2] /= <<"NeedPermission", None>> =>
                        Hangup_from_type_and_device_id(td[1], UnwrapOr(td[2], 0)) = msg[2]
                /\ msg[2] = <<"Normal">> => td[2] = None
    /\ LastOp("IOSPlatform::on_send_hangup") =>
            /\ last[2].hangup /= <<"NeedPermission", None>> =>
                    Hangup_from_type_and_device_id(
                        HangupType_from_i32(app_calls[1].hangup_type)[1],
                        app_calls[1].hangup_device_id) = last[2].hangup
            /\ last[2].hangup = <<"Normal">> => app_calls[1].hangup_device_id = 0
    /\ (LastOp("received_hangup") /\ cm_calls /= <<>>) =>
            /\ last[2][3] = "Normal" => cm_calls[1].hangup = <<"Normal">>
            /\ Hangup_to_type_and_device_id(cm_calls[1].hangup) =
                    <<last[2][3], IF last[2][3] = "Normal" THEN None ELSE Some(last[2][4])>>

C10_Witness ==
    /\ LastOp("received_hangup")
    /\ last[2][3] = "DeclinedOnAnotherDevice"
    /\ last[2][4] = 2
    /\ cm_calls /= <<>>
    /\ cm_calls[1].hangup = <<"DeclinedOnAnotherDevice", 2>>

VideoEvents == {"RemoteVideoEnable", "RemoteVideoDisable"}
RingingEvents == {"LocalRinging", "RemoteRinging"}
ConnectedEvents == {"LocalAccepted", "RemoteAccepted", "Reconnected"}

\* The events that deliver the same notification as `event` does.
SameStateEvents(event) ==
    {e \in ApplicationEvents :
        NativePlatform_on_event(e, Ok).calls = NativePlatform_on_event(event, Ok).calls}

\* C11 (as claimed): in NativePlatform::on_event no two distinct
\* ApplicationEvent values other than the two remote-video events deliver the
\* same CallState value to the state handler.
C11_OnEventOneToOne ==
    (LastOp("NativePlatform::on_event") /\ last[2] \notin VideoEvents) =>
        \A e \in ApplicationEvents \ (VideoEvents \cup {last[2]}) :
            NativePlatform_on_event(e, Ok).calls /= state_calls

\* C11 (amended): every event other than the two remote-video events delivers
\* exactly one CallState; LocalRinging and RemoteRinging both deliver Ringing;
\* LocalAccepted, RemoteAccepted and Reconnected all deliver Connected; and
\* Reconnecting and every event that delivers Ended(reason) share their
\* CallState with no other event.
C11_OnEventMapping ==
    LastOp("NativePlatform::on_event") =>
        /\ Len(state_calls) = 1
        /\ last[2] \in VideoEvents <=> state_calls[1].fn = "handle_remote_video_state"
        /\ last[2] \notin VideoEvents =>
            /\ state_calls[1].fn = "handle_call_state"
            /\ state_calls[1].state[1] \in {"Ringing", "Connected", "Connecting", "Ended"}
            /\ state_calls[1].state = <<"Ringing">> <=> last[2] \in RingingEvents
            /\ state_calls[1].state = <<"Connected">> <=> last[2] \in ConnectedEvents
            /\ state_calls[1].state = <<"Connecting">> <=> last[2] = "Reconnecting"
            /\ last[2] \in RingingEvents => SameStateEvents(last[2]) = RingingEvents
            /\ last[2] \in ConnectedEvents => SameStateEvents(last[2]) = ConnectedEvents
            /\ last[2] \notin (RingingEvents \cup ConnectedEvents) =>
                    SameStateEvents(last[2]) = {last[2]}

C11_Witness ==
    /\ LastOp("NativePlatform::on_event")
    /\ last[2] = "EndedRemoteBusy"
    /\ state_calls = <<[fn |-> "handle_call_state", state |-> <<"Ended", "Busy">>]>>
    /\ SameStateEvents("EndedRemoteBusy") = {"EndedRemoteBusy"}

\* The events for which on_event delivers Ended(reason).
EventsEndingWith(reason) ==
    {e \in ApplicationEvents :
        \E i \in 1..Len(NativePlatform_on_event(e, Ok).calls) :
            /\ NativePlatform_on_event(e, Ok).calls[i].fn = "handle_call_state"
            /\ NativePlatform_on_event(e, Ok).calls[i].state = <<"Ended", reason>>}

\* C12: there are 17 EndReason values; on_event delivers each of them as
\* Ended(reason) for exactly one ApplicationEvent; an Ended notification is
\* made by on_event only (not by on_start_call or on_call_concluded); and one
\* event makes exactly one notification.
C12_EndReasonSingleSource ==
    /\ \A i \in 1..Len(state_calls) :
            (state_calls[i].fn = "handle_call_state" /\ state_calls[i].state[1] = "Ended") =>
                /\ LastOp("NativePlatform::on_event")
                /\ state_calls[i].state[2] \in EndReasons
                /\ EventsEndingWith(state_calls[i].state[2]) = {last[2]}
    /\ LastOp("NativePlatform::on_event") =>
            /\ Len(state_calls) = 1
            /\ Cardinality(EndReasons) = 17
            /\ \A reason \in EndReasons : Cardinality(EventsEndingWith(reason)) = 1

C12_Witness ==
    /\ LastOp("NativePlatform::on_event")
    /\ last[2] = "EndedAppDroppedCall"
    /\ state_calls = <<[fn |-> "handle_call_state", state |-> <<"Ended", "Declined">>]>>
    /\ EventsEndingWith("Declined") = {"EndedAppDroppedCall"}

\* The entry point was handed a null call manager or a missing opaque /
\* sender_identity_key / receiver_identity_key.
RequiredObjectAbsent ==
    \/ LastOp("received_offer") /\
            (last[2][1] = "null" \/ None \in {last[2][2], last[2][4], last[2][5]})
    \/ LastOp("received_answer") /\
            (last[2][1] = "null" \/ None \in {last[2][2], last[2][3], last[2][4]})

\* The call was moved to Ended(InternalFailure): the core was called, or the
\* application was told EndedInternalFailure.
EndedInternalFailureSurfaced ==
    \/ cm_calls /= <<>>
    \/ \E i \in 1..Len(app_calls) :
            app_calls[i].fn = "onEvent" /\ app_calls[i].event = "EndedInternalFailure"

\* C13: when the call-manager pointer is null, or opaque, sender_identity_key
\* or receiver_identity_key is None in received_offer / received_answer, the
\* operation fails with an error and the call that triggered it transitions
\* to Ended(InternalFailure).
C13_AbsentObjectEndsCall ==
    RequiredObjectAbsent => (ret[1] = "Err" /\ EndedInternalFailureSurfaced)

\* What the checks of received_offer / received_answer give for the arguments
\* <<pointer, opaque, sender key, receiver key>> of entry point fn; "decode"
\* when all four pass.
FirstFailure(fn, cm, opaque, skey, rkey) ==
    IF cm = "null" THEN Err("NullPointer")
    ELSE IF opaque = None THEN <<"Err", "OptionValueNotSet", fn, "opaque">>
    ELSE IF skey = None THEN <<"Err", "OptionValueNotSet", fn, "sender_identity_key">>
    ELSE IF rkey = None THEN <<"Err", "OptionValueNotSet", fn, "receiver_identity_key">>
    ELSE <<"decode">>

\* C14: received_offer / received_answer check opaque, sender_identity_key
\* and receiver_identity_key for presence in this order and then decode
\* opaque; the first failure is what the caller gets, the core
\* received_offer / received_answer is then not called and no Platform
\* callback is made; otherwise the core is called once with the decoded
\* payload and its result is returned.
C14_MalformedNeverReachesCore ==
    /\ LastOp("received_offer") =>
        LET a == last[2]
            first == FirstFailure("received_offer()", a[1], a[2], a[4], a[5])
        IN  /\ app_calls = <<>> /\ sent = <<>> /\ state_calls = <<>>
            /\ IF first /= <<"decode">> THEN ret = first /\ cm_calls = <<>>
               ELSE IF ~decode_proto(a[2][1]).ok
               THEN ret = Err("DecodeError") /\ cm_calls = <<>>
               ELSE /\ ret = a[6]
                    /\ Len(cm_calls) = 1
                    /\ cm_calls[1].fn = "received_offer"
                    /\ cm_calls[1].offer.opaque = a[2][1]
                    /\ cm_calls[1].offer.proto = decode_proto(a[2][1]).val
                    /\ cm_calls[1].offer.call_media_type = a[3]
    /\ LastOp("received_answer") =>
        LET a == last[2]
            first == FirstFailure("received_answer()", a[1], a[2], a[3], a[4])
        IN  /\ app_calls = <<>> /\ sent = <<>> /\ state_calls = <<>>
            /\ IF first /= <<"decode">> THEN ret = first /\ cm_calls = <<>>
               ELSE IF ~decode_proto(a[2][1]).ok
               THEN ret = Err("DecodeError") /\ cm_calls = <<>>
               ELSE /\ ret = a[5]
                    /\ Len(cm_calls) = 1
                    /\ cm_calls[1].fn = "received_answer"
                    /\ cm_calls[1].answer.opaque = a[2][1]
                    /\ cm_calls[1].answer.proto = decode_proto(a[2][1]).val

C14_Witness ==
    /\ LastOp("received_offer")
    /\ last[2][1] = "call_manager"
    /\ last[2][2] = Some(<<18, 2, 10>>)
    /\ last[2][4] /= None
    /\ last[2][5] /= None
    /\ ret = Err("DecodeError")
    /\ cm_calls = <<>>

\* C15: close() with a null handle returns an error and destroys nothing;
\* otherwise it calls the core close(), and when that has returned, with Ok
\* or with an error, destroys the manager exactly once and returns what the
\* core close() returned.
C15_CloseDestroysOnce ==
    LastOp("close") =>
        IF last[2][1] = "null"
        THEN ret = Err("NullPointer") /\ cm_calls = <<>>
        ELSE /\ ret = last[2][2]
             /\ cm_calls = <<[fn |-> "close"], [fn |-> "drop"]>>
             /\ Cardinality({i \in 1..Len(cm_calls) : cm_calls[i].fn = "drop"}) = 1
             /\ \A i, j \in 1..Len(cm_calls) :
                    (cm_calls[i].fn = "close" /\ cm_calls[j].fn = "drop") => i < j

C15_Witness ==
    /\ LastOp("close")
    /\ last[2] = <<"call_manager", Err("HostError")>>
    /\ ret = Err("HostError")
    /\ cm_calls = <<[fn |-> "close"], [fn |-> "drop"]>>

\* C16: enable_dtls() is true for V2 and false for V3 and V4, and both
\* create_connection implementations pass exactly that value, with the RTP
\* data channel enabled, to the host callback / the peer-connection factory,
\* which they call once unless an earlier step failed.
C16_DtlsIffV2 ==
    /\ LastOp("IOSPlatform::create_connection") =>
        /\ Version_enable_dtls(last[2][2]) = (last[2][2] = "V2")
        /\ pcf_calls = <<>>
        /\ Len(app_calls) <= 1
        /\ last[2][3] \in {"none", "set_peer_connection", "set_app_connection"} =>
                Len(app_calls) = 1
        /\ \A i \in 1..Len(app_calls) :
            /\ app_calls[i].fn = "onCreateConnectionInterface"
            /\ app_calls[i].enable_dtls = (last[2][2] = "V2")
            /\ app_calls[i].enable_rtp_data_channel = TRUE
    /\ LastOp("NativePlatform::create_connection") =>
        /\ Version_enable_dtls(last[2][2]) = (last[2][2] = "V2")
        /\ app_calls = <<>>
        /\ Len(pcf_calls) <= 1
        /\ last[2][3] \in {"none", "set_peer_connection"} => Len(pcf_calls) = 1
        /\ \A i \in 1..Len(pcf_calls) :
            /\ pcf_calls[i].fn = "create_peer_connection"
            /\ pcf_calls[i].enable_dtls = (last[2][2] = "V2")
            /\ pcf_calls[i].enable_rtp_data_channel = TRUE

C16_Witness ==
    /\ LastOp("IOSPlatform::create_connection")
    /\ last[2][2] = "V3"
    /\ last[2][3] = "none"
    /\ ret = Ok
    /\ Len(app_calls) = 1
    /\ app_calls[1].enable_dtls = FALSE
    /\ app_calls[1].enable_rtp_data_channel = TRUE

\* C17: at any moment at most one task of a TaskQueueRuntime is running, and
\* a task spawned later has not started before every task spawned earlier on
\* the same queue has completed.
C17_TasksInOrder ==
    /\ Cardinality(Running) <= 1
    /\ \A i, j \in 1..Len(tasks) :
            (i < j /\ tasks[j].started) => tasks[i].st = "done"

PeerSdps == SeqsUpTo({111, 118}, MaxStrLen)
PeerOffers ==
    {Offer_new(mt, o)[2] : mt \in CallMediaTypes,
        o \in {b \in SeqsUpTo(ByteAlphabet, MaxPeerLen) : decode_proto(b).ok}}
    \cup {Offer_from_v4_and_v3_and_v2(mt, k, v4, sdp)[2] :
            mt \in CallMediaTypes, k \in Keys, v4 \in {None, Some(DefaultV4)},
            sdp \in PeerSdps}
PeerAnswers ==
    {Answer_new(o)[2] :
        o \in {b \in SeqsUpTo(ByteAlphabet, MaxPeerLen) : decode_proto(b).ok}}
    \cup {Answer_from_v3_and_v2_sdp(k, sdp)[2] : k \in Keys, sdp \in PeerSdps}

\* C19: two Offers with equal opaque length, latest_version() and
\* call_media_type have the same info string; so do two Answers with equal
\* length and version, and two IceCandidates with equal length.
C19_InfoStringRedacted ==
    /\ InHand("Offer") =>
        \A other \in PeerOffers :
            (/\ Len(other.opaque) = Len(msg[2].opaque)
             /\ Offer_latest_version(other) = Offer_latest_version(msg[2])
             /\ other.call_media_type = msg[2].call_media_type)
            => Offer_to_info_string(other) = Offer_to_info_string(msg[2])
    /\ InHand("Answer") =>
        \A other \in PeerAnswers :
            (/\ Len(other.opaque) = Len(msg[2].opaque)
             /\ Answer_latest_version(other) = Answer_latest_version(msg[2]))
            => Answer_to_info_string(other) = Answer_to_info_string(msg[2])
    /\ InHand("Ice") =>
        \A i \in 1..Len(msg[2].candidates_added), other \in IceCandidates :
            Len(other.opaque) = Len(msg[2].candidates_added[i].opaque)
            => IceCandidate_to_info_string(other) =
                    IceCandidate_to_info_string(msg[2].candidates_added[i])

C19_Witness ==
    /\ LastOp("Offer::from_v4_and_v3_and_v2")
    /\ InHand("Offer")
    /\ Offer_to_v3_or_v2_sdp(msg[2]) = OkOf(<<118>>)
    /\ \E other \in PeerOffers :
        /\ Offer_to_v3_or_v2_sdp(other) = OkOf(<<111>>)
        /\ Len(other.opaque) = Len(msg[2].opaque)
        /\ Offer_to_info_string(other) = Offer_to_info_string(msg[2])

BuilderOps == {"Offer::from_v4", "Offer::from_v4_and_v3_and_v2", "Answer::from_v4",
               "Answer::from_v3_and_v2_sdp"}

\* C20 (as claimed): no payload built by from_v4, from_v4_and_v3_and_v2 or
\* from_v3_and_v2_sdp has both the v3_or_v2 and the v4 sub-message populated.
C20_MutuallyExclusive ==
    (last[1] \in BuilderOps /\ (InHand("Offer") \/ InHand("Answer"))) =>
        ~(msg[2].proto.v3_or_v2 /= None /\ msg[2].proto.v4 /= None)

\* C20 (amended): Offer::from_v4 and Answer::from_v4 populate v4 only,
\* Answer::from_v3_and_v2_sdp populates v3_or_v2 only, and
\* Offer::from_v4_and_v3_and_v2 always populates v3_or_v2 and populates v4 as
\* well exactly when it is given one.
C20_SubMessages ==
    /\ LastOp("Offer::from_v4") =>
        /\ InHand("Offer")
        /\ msg[2].proto.v4 /= None
        /\ msg[2].proto.v3_or_v2 = None
    /\ LastOp("Answer::from_v4") =>
        /\ InHand("Answer")
        /\ msg[2].proto.v4 /= None
        /\ msg[2].proto.v3_or_v2 = None
    /\ LastOp("Answer::from_v3_and_v2_sdp") =>
        /\ InHand("Answer")
        /\ msg[2].proto.v3_or_v2 /= None
        /\ msg[2].proto.v4 = None
    /\ LastOp("Offer::from_v4_and_v3_and_v2") =>
        /\ InHand("Offer")
        /\ msg[2].proto.v3_or_v2 /= None
        /\ (msg[2].proto.v4 /= None) <=> (last[2][3] /= None)

C20_Witness ==
    /\ LastOp("Offer::from_v4_and_v3_and_v2")
    /\ last[2][3] = Some(DefaultV4)
    /\ InHand("Offer")
    /\ msg[2].proto.v3_or_v2 /= None
    /\ msg[2].proto.v4 = Some(DefaultV4)

\* C21: an IceCandidate built from an SDP string gives that string back;
\* IceCandidate::new keeps any bytes, and to_v3_and_v2_sdp answers every
\* value with Ok or an error: DecodeError for bytes that do not decode,
\* UnknownSignaledProtocolVersion for a payload without v3_or_v2.sdp.
C21_IceCandidateRoundTrip ==
    /\ (LastOp("IceCandidate::new") =>
            ret = Ok /\ msg = <<"IceCandidate", [opaque |-> last[2][1]]>>)
    /\ (LastOp("IceCandidate::to_v3_and_v2_sdp") =>
            IF last[2][1] = "IceCandidate::from_v3_and_v2_sdp"
            THEN ret = OkOf(last[2][2][1])
            ELSE LET b == last[2][2][1]
                 IN  /\ ret[1] \in {"Ok", "Err"}
                     /\ (~decode_ice_candidate(b).ok => ret = Err("DecodeError"))
                     /\ (ret[1] = "Err" =>
                            ret[2] \in {"DecodeError", "UnknownSignaledProtocolVersion"})
                     /\ (b = <<>> => ret = Err("UnknownSignaledProtocolVersion"))
                     /\ (b = <<18, 0>> => ret = Err("UnknownSignaledProtocolVersion"))
                     /\ (b = <<18, 2, 10, 0>> => ret = OkOf(<<>>))
                     /\ (b = <<255>> => ret = Err("DecodeError")))

C21_Witness ==
    /\ LastOp("IceCandidate::to_v3_and_v2_sdp")
    /\ last[2][1] = "IceCandidate::from_v3_and_v2_sdp"
    /\ Len(last[2][2][1]) = MaxStrLen
    /\ ret = OkOf(last[2][2][1])

\* C22 (as stated): whenever a host handler called by NativePlatform returns
\* an error, the Platform method returns that error to its caller.
C22_HostErrorsPropagated ==
    \A i \in 1..Len(host_rets) : ~IsOk(host_rets[i]) => ret = host_rets[i]

\* C22: an error of the state handler, the signaling sender or the HTTP
\* client is returned to the caller of the Platform method; a group-call
\* callback returns nothing, and an error of the group-update handler is
\* written to the error log instead.
C22_HostErrorsPropagatedOrLogged ==
    IF LastOp("NativePlatform::group_callback")
    THEN /\ ret = Unit
         /\ Len(host_calls) = 1 /\ host_calls[1].update = last[2][2]
         /\ Len(host_rets) = 1
         /\ logged = IF IsOk(host_rets[1]) THEN <<>> ELSE <<host_rets[1]>>
    ELSE /\ logged = <<>>
         /\ \A i \in 1..Len(host_rets) : ~IsOk(host_rets[i]) => ret = host_rets[i]

C22_Witness ==
    /\ LastOp("NativePlatform::group_callback")
    /\ last[2][1] = "handle_ended"
    /\ host_rets = <<Err("HostError")>>
    /\ ret = Unit
    /\ logged = <<Err("HostError")>>

\* C26: NativePlatform::on_send_hangup sends LegacyHangup(h) exactly when
\* send.use_legacy is set and Hangup(h) otherwise, with the same h; typ() of
\* both is Hangup; IOSPlatform::on_send_hangup hands use_legacy, the wire
\* value of the hangup type and the device id (0 when there is none) to the
\* host.
C26_LegacyHangupSameValue ==
    /\ (LastOp("NativePlatform::on_send_hangup") =>
            /\ Len(sent) = 1
            /\ sent[1].msg = <<IF last[2].use_legacy THEN "LegacyHangup" ELSE "Hangup",
                               last[2].hangup>>
            /\ (sent[1].msg[1] = "LegacyHangup") <=> last[2].use_legacy
            /\ Message_typ(sent[1].msg) = "Hangup"
            /\ Message_typ(<<"Hangup", last[2].hangup>>)
                    = Message_typ(<<"LegacyHangup", last[2].hangup>>))
    /\ (LastOp("IOSPlatform::on_send_hangup") =>
            LET h == last[2].hangup
            IN  /\ Len(app_calls) = 1
                /\ app_calls[1].use_legacy = last[2].use_legacy
                /\ app_calls[1].hangup_type =
                        (CASE h[1] = "Normal" -> 0
                           [] h[1] = "AcceptedOnAnotherDevice" -> 1
                           [] h[1] = "DeclinedOnAnotherDevice" -> 2
                           [] h[1] = "BusyOnAnotherDevice" -> 3
                           [] h[1] = "NeedPermission" -> 4)
                /\ app_calls[1].hangup_device_id =
                        (IF h[1] = "Normal" THEN 0
                         ELSE IF h[1] = "NeedPermission" THEN UnwrapOr(h[2], 0)
                         ELSE h[2]))

C26_Witness ==
    /\ LastOp("NativePlatform::on_send_hangup")
    /\ last[2].use_legacy
    /\ last[2].hangup = <<"DeclinedOnAnotherDevice", 1>>
    /\ sent[1].msg = <<"LegacyHangup", <<"DeclinedOnAnotherDevice", 1>>>>

\* C27: IOSPlatform::create_connection creates the Connection, creates the
\* observer, asks the host for the connection interface, binds the peer
\* connection and binds the app connection, in this order; it returns a
\* Connection only when both were bound; when the host returns a null object
\* or a null pc it returns CreateAppPeerConnection and calls neither
\* set_peer_connection nor set_app_connection.
C27_CreateConnectionOrder ==
    LastOp("IOSPlatform::create_connection") =>
        LET StepOf(fn) == IF \E i \in 1..Len(cm_calls) : cm_calls[i].fn = fn
                          THEN (CHOOSE c \in {cm_calls[i] : i \in 1..Len(cm_calls)} :
                                    c.fn = fn).step
                          ELSE IF fn = "onCreateConnectionInterface" /\ app_calls /= <<>>
                          THEN app_calls[1].step
                          ELSE 0
            Before(f, g) == StepOf(g) /= 0 => (StepOf(f) /= 0 /\ StepOf(f) < StepOf(g))
            Bound(fn) == StepOf(fn) /= 0 /\ last[2][3] /= fn
        IN  /\ Before("Connection::new", "PeerConnectionObserver::new")
            /\ Before("PeerConnectionObserver::new", "onCreateConnectionInterface")
            /\ Before("onCreateConnectionInterface", "set_peer_connection")
            /\ Before("set_peer_connection", "set_app_connection")
            /\ \A i, j \in 1..Len(cm_calls) : i < j => cm_calls[i].step < cm_calls[j].step
            /\ (ret = Ok => Bound("set_peer_connection") /\ Bound("set_app_connection"))
            /\ (ret = Ok => last[2][4] = "ok")
            /\ (last[2][4] /= "ok" =>
                    /\ StepOf("set_peer_connection") = 0
                    /\ StepOf("set_app_connection") = 0
                    /\ ret /= Ok
                    /\ (app_calls /= <<>> => ret = Err("CreateAppPeerConnection")))

C27_Witness ==
    /\ LastOp("IOSPlatform::create_connection")
    /\ last[2][3] = "none"
    /\ last[2][4] = "null_pc"
    /\ Len(app_calls) = 1
    /\ ret = Err("CreateAppPeerConnection")
    /\ \A i \in 1..Len(cm_calls) :
            cm_calls[i].fn \notin {"set_peer_connection", "set_app_connection"}

\* C30: an Offer built by from_v4_and_v3_and_v2 with v4 = Some reports V4
\* and gives back the v4 parameters, and its SDP accessors still return the
\* legacy SDP (and public key); for every Offer the SDP accessors give the
\* same answer whether v4 is present or not.
C30_LegacySdpBesideV4 ==
    /\ (LastOp("Offer::from_v4_and_v3_and_v2") =>
            /\ ret = Ok
            /\ Offer_to_v3_or_v2_sdp(msg[2]) = OkOf(last[2][4])
            /\ Offer_to_v3_or_v2_params(msg[2]) = OkOf(<<last[2][4], Some(last[2][2])>>)
            /\ (IsSome(last[2][3]) =>
                    /\ Offer_latest_version(msg[2]) = "V4"
                    /\ Offer_to_v4(msg[2]) = Some(Unwrap(last[2][3]))))
    /\ (Constructed("Offer") =>
            \A v4 \in {None, Some(DefaultV4)} :
                LET other == [msg[2] EXCEPT !.proto.v4 = v4]
                IN  /\ Offer_to_v3_or_v2_sdp(other) = Offer_to_v3_or_v2_sdp(msg[2])
                    /\ Offer_to_v3_or_v2_params(other) = Offer_to_v3_or_v2_params(msg[2]))

C30_Witness ==
    /\ LastOp("Offer::from_v4_and_v3_and_v2")
    /\ IsSome(last[2][3])
    /\ Len(last[2][4]) = MaxStrLen
    /\ Offer_latest_version(msg[2]) = "V4"
    /\ Offer_to_v3_or_v2_sdp(msg[2]) = OkOf(last[2][4])

\* C25: uuid_to_string gives the empty string for every input that is not
\* 16 bytes long, and for 16 bytes the 36 characters of their lowercase hex
\* digits with a hyphen after bytes 4, 6, 8 and 10; bytes_to_hexstring gives
\* the two lowercase hex digits of each byte, in order.
C25_UuidAndHexFormat ==
    LET Lower == <<"0", "1", "2", "3", "4", "5", "6", "7",
                   "8", "9", "a", "b", "c", "d", "e", "f">>
        bytes == last[2][1]
        out == ret[2]
        Hyphens(i) == Cardinality({k \in {4, 6, 8, 10} : k < i})
    IN  /\ (LastOp("bytes_to_hexstring") =>
                /\ Len(out) = 2 * Len(bytes)
                /\ \A i \in 1..Len(bytes) :
                        /\ out[2 * i - 1] = Lower[(bytes[i] \div 16) + 1]
                        /\ out[2 * i] = Lower[(bytes[i] % 16) + 1])
        /\ (LastOp("uuid_to_string") =>
                IF Len(bytes) /= 16 THEN out = <<>>
                ELSE /\ Len(out) = 36
                     /\ \A p \in {9, 14, 19, 24} : out[p] = "-"
                     /\ \A i \in 1..16 :
                            /\ out[2 * i - 1 + Hyphens(i)] = Lower[(bytes[i] \div 16) + 1]
                            /\ out[2 * i + Hyphens(i)] = Lower[(bytes[i] % 16) + 1]
                     /\ (bytes = <<17, 34, 51, 68, 85, 102, 119, 136, 153, 0, 170, 187, 204, 221, 238, 255>> =>
                            out = <<"1", "1", "2", "2", "3", "3", "4", "4", "-",
                                    "5", "5", "6", "6", "-", "7", "7", "8", "8", "-",
                                    "9", "9", "0", "0", "-", "a", "a", "b", "b",
                                    "c", "c", "d", "d", "e", "e", "f", "f">>))

C25_Witness ==
    /\ LastOp("uuid_to_string")
    /\ last[2][1] = <<17, 34, 51, 68, 85, 102, 119, 136, 153, 0, 170, 187, 204, 221, 238, 255>>
    /\ Len(ret[2]) = 36
    /\ ret[2][9] = "-"

\* C29: making and dropping ArcPtr values never changes the strong count,
\* so the object is not freed by an ArcPtr going out of scope; each dropped
\* result of ptr_as_arc_mutex takes exactly one reference away; a null
\* pointer gives NullPointer from both and touches no count.
C29_ArcPtrKeepsCount ==
    /\ strong = MaxRefs - consumed
    /\ (consumed = 0 => strong = MaxRefs)
    /\ (consumed < MaxRefs => strong > 0)
    /\ (arc_last[1] \in {"ptr_as_arc_ptr", "ptr_as_arc_mutex"} =>
            (arc_ret = Err("NullPointer")) <=> (arc_last[2] = "null"))

\* C29: one step of ArcPtr creation or drop leaves the count as it is, a
\* dropped Arc lowers it by one, and a call with a null pointer changes
\* nothing but its result.
C29_ArcSteps ==
    [][/\ (arc_last'[1] \in {"ptr_as_arc_ptr", "ArcPtr::drop"} => strong' = strong)
       /\ (arc_last'[1] = "Arc::drop" => strong' = strong - 1)
       /\ (arc_last'[2] = "null" =>
                <<strong, arc_ptrs, owned, consumed>>' = <<strong, arc_ptrs, owned, consumed>>)
      ]_vars

C29_Witness ==
    /\ arc_last[1] = "ArcPtr::drop"
    /\ arc_ptrs = 0
    /\ consumed = 1
    /\ strong = MaxRefs - 1

\* The calls of the CallManager that are not Idle.
NonIdle == {id \in ManagedCallIds : call_state[id].state /= "Idle"}

\* The most recent entry point was `op`, called with a call manager.
Entered(op) == mgr_last[1] = op /\ mgr_last[2][1] /= "null"

SignalingEntryPoints ==
    {"received_answer", "received_ice", "received_hangup", "received_busy",
     "message_sent", "message_send_failure"}

C28_ConnectingOnlyAfterConnected ==
    /\ \A event \in ApplicationEvents :
        /\ (NativePlatform_on_event(event, Ok).calls[1].fn = "handle_call_state"
             /\ NativePlatform_on_event(event, Ok).calls[1].state = <<"Connecting">>)
            <=> event = "Reconnecting"
        /\ event \in {"LocalAccepted", "RemoteAccepted", "Reconnected"} =>
                NativePlatform_on_event(event, Ok).calls = <<[fn |-> "handle_call_state", state |-> <<"Connected">>]>>
    /\ \A i \in 1..Len(reported) :
        reported[i][1] = "Connecting" =>
            /\ \E j \in 1..(i - 1) : reported[j][1] = "Connected"
            /\ call_state[UnwrapOr(active_call_id, 1)].connected
    /\ (Entered("accept_call") /\ mgr_ret = Ok) =>
            \A i \in 1..Len(reported) : reported[i][1] \notin {"Connecting", "Connected"}

C28_Witness ==
    /\ mgr_last[1] = "interrupted"
    /\ IsSome(active_call_id)
    /\ call_state[UnwrapOr(active_call_id, 1)].direction = "InComing"
    /\ Len(reported) = 4
    /\ reported[3] = <<"Connected">>
    /\ reported[4] = <<"Connecting">>

====
